---- MODULE Spec2Model ----
(***************************************************************************)
(* A model of the gsc-exporter scripts: the paged fetcher of               *)
(* generate_gsc_wrapped.py, the monthly fetch loops of                     *)
(* queries-pages-analysis.py and account-wide-analysis.py, the monthly     *)
(* window arithmetic and the site sort key, the site list and index of     *)
(* the report, get_gsc_service, the CSV and HTML output of a whole run     *)
(* and the narrative of the wrapped report, and the per-site loop of       *)
(* run_for_sites.py.                                                       *)
(***************************************************************************)
EXTENDS Integers, Sequences, FiniteSets, TLC

VARIABLES
    pc,          \* position of the running script
    script,      \* which script runs: "wrapped", "qpa", "awa", "windows", "sortkey"
    calls,       \* the API requests issued so far, in order, with their answers
    row_limit,   \* get_gsc_data: the page limit
    source_rows, \* the rows the API holds for the query (the paged source)
    start_row,   \* get_gsc_data: the offset of the next request
    all_data,    \* get_gsc_data / main: the rows accumulated so far
    raw_data,    \* generate_gsc_wrapped.main: what get_gsc_data returned
    handling,    \* generate_gsc_wrapped.main: the branch main took on raw_data
    df,          \* main: the dataframe built from the fetched rows
    today,       \* date.today()
    sites,       \* main: the site list
    site_idx,    \* main: index of the site of the outer loop
    i,           \* main: the window index of the inner loop
    totals_data, \* get_monthly_performance_data: the totals row of the window
    unique_queries, \* get_monthly_performance_data: the unique-query count
    faults,      \* number of non-data answers the API has given in this run
    windows,     \* the windows generated so far (window generator)
    site_in,     \* the site identifier handed to get_sort_key, as form and labels
    site_url,    \* the same identifier as the string the code receives
    sort_key,    \* the result of get_sort_key
    args,        \* the command line: site_url (0 when absent) and use_cache
    csv_file,    \* the CSV at the canonical output path (None: no such file)
    html_file,   \* the HTML report at its output path (None: no such file)
    token_file,  \* token.json: "absent", "unreadable" or the credentials in it
    client_secret, \* whether client_secret.json exists
    creds,       \* get_gsc_service: creds
    service,     \* what get_gsc_service returned
    auth_log,    \* what get_gsc_service did, in order
    index_groups, \* create_multi_site_html_report: the index groups opened
    wrapped_data, \* generate_gsc_wrapped.main: the narrative aggregates
    io_log,      \* the writes of output files attempted, with their outcomes
    argv,        \* run_for_sites: the command line and the files it names
    sites_to_process, \* run_for_sites.main: sites_to_process
    children     \* run_for_sites.main: the subprocess.run calls made, in order

vars == <<pc, script, calls, row_limit, source_rows, start_row, all_data,
          raw_data, handling, df, today, sites, site_idx, i, totals_data,
          unique_queries, faults, windows, site_in, site_url, sort_key,
          args, csv_file, html_file, token_file, client_secret, creds, service,
          auth_log, index_groups, wrapped_data, io_log, argv, sites_to_process,
          children>>

(***************************************************************************)
(* Bounds of the model.                                                    *)
(***************************************************************************)
MaxLimit == 3
MaxRows == 7
YearSpan == 2
NumSites == 2
NumWindows == 3
MaxFaults == 2
MaxSub == 2

(***************************************************************************)
(* Python values.                                                          *)
(***************************************************************************)
\* None and a list, as one shape: Python's None, or the list rows.
None == [isNone |-> TRUE, rows |-> <<>>]

Some(rows) == [isNone |-> FALSE, rows |-> rows]

\* Python truthiness of None-or-list: None and the empty list are falsy.
Truthy(v) == ~v.isNone /\ Len(v.rows) > 0

Min(a, b) == IF a < b THEN a ELSE b

(***************************************************************************)
(* Values of the variables a script does not use.                          *)
(***************************************************************************)
NoDate == [year |-> 0, month |-> 0, day |-> 0]

NoSite == [form |-> "none", labels |-> <<>>]

NoKey == [root_domain |-> <<>>, order |-> -1, subdomain |-> <<>>]

IdleFetch ==
    /\ row_limit = 0 /\ source_rows = <<>> /\ start_row = 0
    /\ raw_data = None /\ handling = "none" /\ df = None

IdleMonthly ==
    /\ today = NoDate /\ sites = <<>> /\ site_idx = 0 /\ i = 0
    /\ totals_data = None /\ unique_queries = 0 /\ faults = 0

IdleWindows == windows = <<>>

IdleSortKey == site_in = NoSite /\ site_url = <<>> /\ sort_key = NoKey

NoArgs == [site_url |-> 0, use_cache |-> FALSE]

NoAggregates == [top_page |-> <<>>, top_query |-> <<>>, most_clicked_month |-> 0]

\* creds = None in get_gsc_service.
NoCreds == [present |-> FALSE, valid |-> FALSE, expired |-> FALSE,
            refresh_token |-> FALSE]

NoTokenFile == [kind |-> "absent", creds |-> NoCreds]

NoService == [built |-> FALSE, creds |-> NoCreds]

IdleAuth ==
    /\ token_file = NoTokenFile /\ client_secret = FALSE /\ creds = NoCreds
    /\ service = NoService /\ auth_log = <<>>

IdleOutput ==
    /\ csv_file = None /\ html_file = None /\ io_log = <<>>
    /\ index_groups = <<>> /\ wrapped_data = NoAggregates

IdleRun == args = NoArgs /\ IdleAuth /\ IdleOutput

NoArgv == [script_exists |-> FALSE, sites |-> <<>>, file_given |-> FALSE,
           file_exists |-> FALSE, lines |-> <<>>, other_args |-> <<>>]

IdleDriver == argv = NoArgv /\ sites_to_process = <<>> /\ children = <<>>

authVars == <<token_file, client_secret, creds, service, auth_log>>

outputVars == <<csv_file, html_file, io_log, index_groups, wrapped_data>>

runVars == <<args, authVars, outputVars>>

fetchVars == <<row_limit, source_rows, start_row, raw_data, handling, df>>

monthlyVars == <<today, sites, site_idx, i, totals_data, unique_queries, faults>>

sortVars == <<site_in, site_url, sort_key>>

driverVars == <<argv, sites_to_process, children>>

(***************************************************************************)
(* The paged source: the search-analytics API answering one request.       *)
(* It serves the rows [startRow, startRow + rowLimit) of the rows it       *)
(* holds and omits 'rows' when none remain.                                *)
(***************************************************************************)
HasRows(src, startRow) == startRow < Len(src)

ServeRows(src, startRow, rowLimit) ==
    SubSeq(src, startRow + 1, Min(startRow + rowLimit, Len(src)))

(***************************************************************************)
(* generate_gsc_wrapped.py: get_gsc_data, one action per loop iteration.   *)
(***************************************************************************)
\* A loop that goes on after every page of rows.
LastPage_Never(rows, limit) == FALSE

\* The loop continues after a page of rows exactly when the page is full.
LastPage(rows, limit) == Len(rows) < limit

\* A fetcher that hands back the pages it has when a request raises.
FailedFetchResult_Partial(acc) == Some(acc)

\* What get_gsc_data returns when a request raises.
FailedFetchResult(acc) == None

\* An offset that advances one row short of a page.
NextStartRow_OffByOne(sr, limit) == sr + limit - 1

\* start_row after a full page.
NextStartRow(sr, limit) == sr + limit

\* One iteration whose request succeeds (lines 66-82).
QueryPage ==
    /\ script = "wrapped" /\ pc = "loop"
    /\ IF HasRows(source_rows, start_row)
       THEN LET rows == ServeRows(source_rows, start_row, row_limit) IN
            /\ calls' = Append(calls, [startRow |-> start_row, answer |-> "rows", n |-> Len(rows)])
            /\ all_data' = all_data \o rows
            /\ IF LastPage(rows, row_limit)
               THEN /\ raw_data' = Some(all_data')
                    /\ pc' = "returned"
                    /\ start_row' = start_row
               ELSE /\ start_row' = NextStartRow(start_row, row_limit)
                    /\ UNCHANGED <<raw_data, pc>>
       ELSE /\ calls' = Append(calls, [startRow |-> start_row, answer |-> "norows", n |-> 0])
            /\ raw_data' = Some(all_data)
            /\ pc' = "returned"
            /\ UNCHANGED <<all_data, start_row>>
    /\ UNCHANGED <<runVars, script, driverVars, row_limit, source_rows, handling, df, monthlyVars,
                   windows, sortVars>>

\* One iteration whose request raises: HttpError (lines 83-85) or any other
\* Exception (lines 86-88); both return None.
QueryFails ==
    /\ script = "wrapped" /\ pc = "loop"
    /\ \E kind \in {"HttpError", "Exception"} :
          calls' = Append(calls, [startRow |-> start_row, answer |-> kind, n |-> 0])
    /\ raw_data' = FailedFetchResult(all_data)
    /\ pc' = "returned"
    /\ UNCHANGED <<runVars, script, driverVars, row_limit, source_rows, start_row, all_data, handling,
                   df, monthlyVars, windows, sortVars>>

(***************************************************************************)
(* generate_gsc_wrapped.py: main, lines 154-160.                           *)
(***************************************************************************)
\* A main that goes on to the report whatever was returned.
MainBranch_AlwaysReport(raw) == "report"

\* The branch main takes on the value get_gsc_data returned.
MainBranch(raw) == IF ~Truthy(raw) THEN "no_data_found" ELSE "report"

WrappedMain ==
    /\ script = "wrapped" /\ pc = "returned"
    /\ handling' = MainBranch(raw_data)
    /\ df' = IF handling' = "report" THEN Some(raw_data.rows) ELSE df
    /\ pc' = "done"
    /\ UNCHANGED <<runVars, script, driverVars, calls, row_limit, source_rows, start_row, all_data,
                   raw_data, monthlyVars, windows, sortVars>>

InitFetch ==
    /\ script = "wrapped" /\ pc = "loop"
    /\ IdleRun
    /\ calls = <<>>
    /\ row_limit \in 1..MaxLimit
    /\ \E r \in 0..MaxRows : source_rows = [k \in 1..r |-> k]
    /\ start_row = 0 /\ all_data = <<>>
    /\ raw_data = None /\ handling = "none" /\ df = None
    /\ IdleMonthly /\ IdleWindows /\ IdleSortKey /\ IdleDriver

NextFetch == QueryPage \/ QueryFails \/ WrappedMain

SpecFetch == InitFetch /\ [][NextFetch]_vars

\* The same fetch when the interpreter keeps running and every request is
\* answered or raises: a step that can be taken is taken.
SpecFetchFair == SpecFetch /\ WF_vars(NextFetch)

(***************************************************************************)
(* Calendar arithmetic of the monthly windows (datetime.date, timedelta,   *)
(* dateutil.relativedelta), as main uses it.                               *)
(***************************************************************************)
IsLeap(y) == (y % 4 = 0 /\ y % 100 # 0) \/ y % 400 = 0

DaysInMonth(y, m) ==
    IF m = 2 THEN (IF IsLeap(y) THEN 29 ELSE 28)
    ELSE IF m \in {4, 6, 9, 11} THEN 30 ELSE 31

\* date.replace(day=n)
ReplaceDay(d, n) == [d EXCEPT !.day = n]

\* A month subtraction that forgets to carry into the year.
SubMonths_NoYearCarry(d, n) ==
    LET month == d.month - (n % 12)
        m2 == IF month < 1 THEN month + 12 ELSE month
        y2 == d.year - (n \div 12)
    IN  [year |-> y2, month |-> m2, day |-> Min(d.day, DaysInMonth(y2, m2))]

\* d - relativedelta(months=n), n >= 0: whole years and the remaining months
\* are taken off, the month wraps into the previous year, and the day is
\* clipped to the length of the month reached.
SubMonths(d, n) ==
    LET month == d.month - (n % 12)
        m2 == IF month < 1 THEN month + 12 ELSE month
        y2 == d.year - (n \div 12) - (IF month < 1 THEN 1 ELSE 0)
    IN  [year |-> y2, month |-> m2, day |-> Min(d.day, DaysInMonth(y2, m2))]

\* d - timedelta(days=1)
SubOneDay(d) ==
    IF d.day > 1 THEN [d EXCEPT !.day = d.day - 1]
    ELSE IF d.month > 1
         THEN [year |-> d.year, month |-> d.month - 1,
               day |-> DaysInMonth(d.year, d.month - 1)]
         ELSE [year |-> d.year - 1, month |-> 12, day |-> 31]

\* end_of_month = today.replace(day=1) - relativedelta(months=k - 1) - timedelta(days=1)
EndOfMonth(t, k) == SubOneDay(SubMonths(ReplaceDay(t, 1), k - 1))

\* start_of_month = end_of_month.replace(day=1)
StartOfMonth(e) == ReplaceDay(e, 1)

\* The window of loop index k: (start_of_month, end_of_month).
Window(t, k) ==
    [start |-> StartOfMonth(EndOfMonth(t, k)), end |-> EndOfMonth(t, k)]

\* start_of_month.strftime('%Y-%m'): the year and the month of the window.
MonthLabel(d) == <<d.year, d.month>>

\* range(1, 17): the number of windows per site.
WindowCount == 16

\* The reference dates: every day of a few consecutive years around a leap
\* year, and of the years around a century that is a leap year and one that
\* is not.
RefYears == (2023..(2023 + YearSpan)) \cup {2000, 2001, 2100, 2101}

RefDates ==
    {[year |-> y, month |-> m, day |-> d] :
        y \in RefYears, m \in 1..12, d \in 1..31} \ 
    {x \in [year : RefYears, month : 1..12, day : 29..31] :
        x.day > DaysInMonth(x.year, x.month)}

\* One iteration of `for i in range(1, 17)`, keeping only the window.
GenerateWindow ==
    /\ script = "windows" /\ pc = "loop"
    /\ i <= WindowCount
    /\ windows' = Append(windows, Window(today, i))
    /\ i' = i + 1
    /\ pc' = IF i = WindowCount THEN "done" ELSE "loop"
    /\ UNCHANGED <<runVars, script, driverVars, calls, fetchVars, all_data, today, sites, site_idx,
                   totals_data, unique_queries, faults, sortVars>>

InitWindows ==
    /\ script = "windows" /\ pc = "loop"
    /\ IdleRun
    /\ calls = <<>> /\ all_data = <<>>
    /\ IdleFetch /\ IdleSortKey /\ IdleDriver
    /\ today \in RefDates
    /\ sites = <<>> /\ site_idx = 0 /\ i = 1
    /\ totals_data = None /\ unique_queries = 0 /\ faults = 0
    /\ windows = <<>>

NextWindows == GenerateWindow

SpecWindows == InitWindows /\ [][NextWindows]_vars

(***************************************************************************)
(* The monthly fetch loop of queries-pages-analysis.py ("qpa") and         *)
(* account-wide-analysis.py ("awa"): main's two nested loops and           *)
(* get_monthly_performance_data, one action per API request.               *)
(***************************************************************************)
\* What the API holds for a site and a window: the single totals row, and the
\* numbers of rows of the query and the page sub-queries.  ctr and position
\* are floats, held in millionths.  Some months have traffic 0.
TotalsRow(s, k) ==
    LET clicks == ((2 * s + k) % 3) * 5
        impressions == clicks * 400 + 1000 * s
    IN  [clicks |-> clicks, impressions |-> impressions,
         ctr |-> (clicks * 1000000) \div impressions,
         position |-> 1004500 + 370000 * k]

QueryRowCount(s, k) == 3 + k

PageRowCount(s, k) == 2 + s

\* The answers of the API to one request: rows, a response without 'rows',
\* an HttpError with a status, or an exception that is not an HttpError.
TotalsAnswers == {"rows", "norows", "http403", "http404", "http429", "exception"}

SubQueryAnswers == {"rows", "norows", "http403", "http429", "exception"}

IsHttpError(ans) == ans \in {"http400", "http403", "http404", "http429"}

\* The model lets the API give at most MaxFaults answers other than rows.
MayAnswer(ans) == ans = "rows" \/ faults < MaxFaults

Request(kind, ans) ==
    [site |-> sites[site_idx], window |-> i, kind |-> kind, answer |-> ans]

\* What get_monthly_performance_data does with the answer to the totals
\* request: go on with the row ("data"), return None ("none"), return
\* "PERMISSION_DENIED" ("denied") or let the exception escape ("raise").
\* qpa: lines 90-124; awa: lines 65-77.
TotalsOutcome(scr, ans) ==
    CASE ans = "rows" -> "data"
      [] ans = "norows" -> "none"
      [] IsHttpError(ans) ->
            IF scr = "qpa" /\ ans = "http403" THEN "denied" ELSE "none"
      [] OTHER -> IF scr = "awa" THEN "none" ELSE "raise"

\* What a unique-count sub-query of qpa does with its answer (lines 98-112):
\* the count of rows, 0 without rows or on an HttpError, and an exception
\* that is not an HttpError escapes both try blocks.
SubQueryRaises(ans) == ans = "exception"

SubQueryCount(ans, n) == IF ans = "rows" THEN n ELSE 0

\* A row labelled with the most recent month whatever its window.
MonthRow_FirstWindowMonth(scr, site, t, k, totals, uq, up) ==
    [site_url |-> site, month |-> MonthLabel(StartOfMonth(EndOfMonth(t, 1))),
     clicks |-> totals.clicks, impressions |-> totals.impressions,
     ctr |-> totals.ctr, position |-> totals.position,
     queries |-> uq, pages |-> up]

\* The row main appends for a window (qpa line 399, awa lines 138-145).
MonthRow(scr, site, t, k, totals, uq, up) ==
    IF scr = "qpa"
    THEN [site_url |-> site, month |-> MonthLabel(StartOfMonth(EndOfMonth(t, k))),
          clicks |-> totals.clicks, impressions |-> totals.impressions,
          ctr |-> totals.ctr, position |-> totals.position,
          queries |-> uq, pages |-> up]
    ELSE [site_url |-> site, month |-> MonthLabel(StartOfMonth(EndOfMonth(t, k))),
          clicks |-> totals.clicks, impressions |-> totals.impressions,
          ctr |-> totals.ctr, position |-> totals.position]

\* A break that leaves both loops.
AfterBreak_LeavesBothLoops ==
    /\ pc' = "after_loop"
    /\ UNCHANGED <<site_idx, i>>

\* An end of iteration that stays on the window it has just asked for.
NextWindow_SameWindow ==
    /\ pc' = "totals"
    /\ UNCHANGED <<site_idx, i>>

\* `break` (qpa line 397): the inner loop ends, the outer loop goes on.
AfterBreak ==
    IF site_idx < Len(sites)
    THEN /\ site_idx' = site_idx + 1 /\ i' = 1 /\ pc' = "totals"
    ELSE /\ pc' = "after_loop" /\ UNCHANGED <<site_idx, i>>

\* The end of one iteration of the inner loop.
NextWindow ==
    IF i < NumWindows
    THEN /\ i' = i + 1 /\ pc' = "totals" /\ UNCHANGED site_idx
    ELSE AfterBreak

\* The totals request of a window and what follows from its answer.
TotalsRequest ==
    /\ script \in {"qpa", "awa"} /\ pc = "totals"
    /\ \E ans \in TotalsAnswers :
        /\ MayAnswer(ans)
        /\ calls' = Append(calls, Request("totals", ans))
        /\ faults' = IF ans = "rows" THEN faults ELSE faults + 1
        /\ LET out == TotalsOutcome(script, ans)
               row == TotalsRow(sites[site_idx], i) IN
           CASE out = "data" /\ script = "qpa" ->
                    /\ totals_data' = Some(<<row>>)
                    /\ pc' = "queries"
                    /\ UNCHANGED <<all_data, site_idx, i>>
             [] out = "data" /\ script = "awa" ->
                    /\ all_data' = Append(all_data,
                           MonthRow("awa", sites[site_idx], today, i, row, 0, 0))
                    /\ NextWindow
                    /\ UNCHANGED totals_data
             [] out = "none" ->
                    /\ NextWindow
                    /\ UNCHANGED <<all_data, totals_data>>
             [] out = "denied" ->
                    /\ AfterBreak
                    /\ UNCHANGED <<all_data, totals_data>>
             [] OTHER ->
                    /\ pc' = "crashed"
                    /\ UNCHANGED <<all_data, totals_data, site_idx, i>>
    /\ UNCHANGED <<runVars, script, driverVars, fetchVars, today, sites, unique_queries, windows, sortVars>>

\* The unique-query sub-query of qpa (lines 98-104).
QueriesRequest ==
    /\ script = "qpa" /\ pc = "queries"
    /\ \E ans \in SubQueryAnswers :
        /\ MayAnswer(ans)
        /\ calls' = Append(calls, Request("queries", ans))
        /\ faults' = IF ans = "rows" THEN faults ELSE faults + 1
        /\ IF SubQueryRaises(ans)
           THEN /\ pc' = "crashed"
                /\ UNCHANGED unique_queries
           ELSE /\ unique_queries' = SubQueryCount(ans, QueryRowCount(sites[site_idx], i))
                /\ pc' = "pages"
    /\ UNCHANGED <<runVars, script, driverVars, fetchVars, all_data, today, sites, site_idx, i,
                   totals_data, windows, sortVars>>

\* The unique-page sub-query of qpa (lines 106-112), the return of line 114
\* and main's append of the row (lines 396-399).
PagesRequest ==
    /\ script = "qpa" /\ pc = "pages"
    /\ \E ans \in SubQueryAnswers :
        /\ MayAnswer(ans)
        /\ calls' = Append(calls, Request("pages", ans))
        /\ faults' = IF ans = "rows" THEN faults ELSE faults + 1
        /\ IF SubQueryRaises(ans)
           THEN /\ pc' = "crashed"
                /\ UNCHANGED <<all_data, site_idx, i, totals_data, unique_queries>>
           ELSE /\ all_data' = Append(all_data,
                       MonthRow("qpa", sites[site_idx], today, i, totals_data.rows[1],
                                unique_queries,
                                SubQueryCount(ans, PageRowCount(sites[site_idx], i))))
                /\ totals_data' = None
                /\ unique_queries' = 0
                /\ NextWindow
    /\ UNCHANGED <<runVars, script, driverVars, fetchVars, today, sites, windows, sortVars>>

\* After the loops: nothing to report without a row, else the dataframe
\* (qpa lines 401-405, awa lines 147-151).
BuildFrame ==
    /\ script \in {"qpa", "awa"} /\ pc = "after_loop"
    /\ IF all_data = <<>>
       THEN /\ pc' = "no_data" /\ UNCHANGED df
       ELSE /\ pc' = "frame" /\ df' = Some(all_data)
    /\ UNCHANGED <<runVars, script, driverVars, calls, row_limit, source_rows, start_row, all_data,
                   raw_data, handling, monthlyVars, windows, sortVars>>

InitMonthly ==
    /\ script \in {"qpa", "awa"} /\ pc = "totals"
    /\ IdleRun
    /\ calls = <<>> /\ all_data = <<>>
    /\ IdleFetch /\ IdleWindows /\ IdleSortKey /\ IdleDriver
    /\ today = [year |-> 2024, month |-> 3, day |-> 15]
    /\ sites = [n \in 1..NumSites |-> n]
    /\ site_idx = 1 /\ i = 1
    /\ totals_data = None /\ unique_queries = 0 /\ faults = 0

NextMonthly == TotalsRequest \/ QueriesRequest \/ PagesRequest \/ BuildFrame

SpecMonthly == InitMonthly /\ [][NextMonthly]_vars

(***************************************************************************)
(* queries-pages-analysis.py: get_sort_key.  Strings are sequences of      *)
(* characters, so that prefix tests, replace, urlparse, split and join     *)
(* are computed on the text as the code computes them.                     *)
(***************************************************************************)
RECURSIVE Join(_, _)
\* sep.join(parts)
Join(parts, sep) ==
    IF parts = <<>> THEN <<>>
    ELSE IF Len(parts) = 1 THEN parts[1]
    ELSE parts[1] \o sep \o Join(Tail(parts), sep)

\* s.startswith(prefix)
StartsWith(s, prefix) ==
    Len(s) >= Len(prefix) /\ SubSeq(s, 1, Len(prefix)) = prefix

RECURSIVE RemoveAll(_, _)
\* s.replace(old, ''): every occurrence of old is removed, left to right.
RemoveAll(s, old) ==
    IF s = <<>> THEN <<>>
    ELSE IF StartsWith(s, old) THEN RemoveAll(SubSeq(s, Len(old) + 1, Len(s)), old)
    ELSE <<Head(s)>> \o RemoveAll(Tail(s), old)

RECURSIVE TakeUntil(_, _)
\* The longest prefix of s without a character of stops.
TakeUntil(s, stops) ==
    IF s = <<>> \/ Head(s) \in stops THEN <<>>
    ELSE <<Head(s)>> \o TakeUntil(Tail(s), stops)

RECURSIVE Split(_, _)
\* s.split(sep) for a one-character separator: one more part than separators.
Split(s, sep) ==
    LET first == TakeUntil(s, {sep}) IN
    IF Len(first) = Len(s) THEN <<first>>
    ELSE <<first>> \o Split(SubSeq(s, Len(first) + 2, Len(s)), sep)

\* urlparse(url).netloc: what follows "<scheme>://" up to the next "/", "?"
\* or "#"; empty when no "//" follows the scheme.
Netloc(url) ==
    LET scheme == TakeUntil(url, {":"})
        rest == SubSeq(url, Len(scheme) + 2, Len(url))
    IN  IF Len(scheme) < Len(url) /\ StartsWith(rest, <<"/", "/">>)
        THEN TakeUntil(SubSeq(rest, 3, Len(rest)), {"/", "?", "#"})
        ELSE <<>>

ScDomainPrefix == <<"s", "c", "-", "d", "o", "m", "a", "i", "n", ":">>

WwwDot == <<"w", "w", "w", ".">>

\* The labels line 319 looks for in the second-to-last place.
SecondLevelLabels ==
    {<<"c", "o">>, <<"c", "o", "m">>, <<"o", "r", "g">>, <<"n", "e", "t">>,
     <<"g", "o", "v">>, <<"e", "d", "u">>}

\* Lines 319-324: the root domain of a URL-prefix property.
UrlRootDomain(netloc) ==
    LET parts == Split(netloc, ".")
        n == Len(parts)
    IN  IF n > 2 /\ parts[n - 1] \in SecondLevelLabels /\ Len(parts[n - 2]) > 2
        THEN Join(SubSeq(parts, n - 2, n), <<".">>)
        ELSE IF n > 2 THEN Join(SubSeq(parts, n - 1, n), <<".">>)
        ELSE netloc

\* A precedence test that takes the www host for any other subdomain.
UrlOrder_Swapped(netloc) == IF StartsWith(netloc, WwwDot) THEN 2 ELSE 1

\* Lines 325-329: the precedence class of a URL-prefix property.
UrlOrder(netloc) == IF StartsWith(netloc, WwwDot) THEN 1 ELSE 2

\* Lines 327 and 330: its subdomain.
UrlSubdomain(netloc) ==
    IF StartsWith(netloc, WwwDot) THEN <<>> ELSE Split(netloc, ".")[1]

\* get_sort_key(site_url), lines 310-331.
get_sort_key(url) ==
    IF StartsWith(url, ScDomainPrefix)
    THEN [root_domain |-> RemoveAll(url, ScDomainPrefix), order |-> 0,
          subdomain |-> <<>>]
    ELSE LET netloc == Netloc(url) IN
         [root_domain |-> UrlRootDomain(netloc), order |-> UrlOrder(netloc),
          subdomain |-> UrlSubdomain(netloc)]

\* The site identifiers of the model: a domain property "sc-domain:<host>" or
\* a URL-prefix property "<scheme>://<host>/", the host being up to MaxSub
\* subdomain labels, a name and a public suffix of one or two labels.
SubLabels == {<<"w", "w", "w">>, <<"b", "l", "o", "g">>, <<"m">>}

NameLabels == {<<"e", "x", "a", "m", "p", "l", "e">>, <<"e", "e">>}

Suffixes ==
    {<<<<"c", "o", "m">>>>, <<<<"i", "o">>>>, <<<<"c", "o">>, <<"u", "k">>>>,
     <<<<"c", "o", "m">>, <<"a", "u">>>>}

SubSeqs == UNION {[1..n -> SubLabels] : n \in 0..MaxSub}

Hosts == {subs \o <<name>> \o suffix :
            subs \in SubSeqs, name \in NameLabels, suffix \in Suffixes}

Forms == {"domain", "https", "http"}

\* The identifier as text.
SiteText(form, labels) ==
    LET host == Join(labels, <<".">>) IN
    CASE form = "domain" -> ScDomainPrefix \o host
      [] form = "https" -> <<"h", "t", "t", "p", "s", ":", "/", "/">> \o host \o <<"/">>
      [] OTHER -> <<"h", "t", "t", "p", ":", "/", "/">> \o host \o <<"/">>

\* One call of get_sort_key.
ComputeSortKey ==
    /\ script = "sortkey" /\ pc = "call"
    /\ sort_key' = get_sort_key(site_url)
    /\ pc' = "done"
    /\ UNCHANGED <<runVars, script, driverVars, calls, fetchVars, all_data, monthlyVars, windows,
                   site_in, site_url>>

InitSortKey ==
    /\ script = "sortkey" /\ pc = "call"
    /\ IdleRun
    /\ calls = <<>> /\ all_data = <<>>
    /\ IdleFetch /\ IdleMonthly /\ IdleWindows /\ IdleDriver
    /\ \E form \in Forms, labels \in Hosts :
          /\ site_in = [form |-> form, labels |-> labels]
          /\ site_url = SiteText(form, labels)
    /\ sort_key = NoKey

NextSortKey == ComputeSortKey

SpecSortKey == InitSortKey /\ [][NextSortKey]_vars

(***************************************************************************)
(* queries-pages-analysis.py: the site list handed to the multi-site       *)
(* report.  main sorts it by get_sort_key on the fetch path (line 382) and *)
(* on the --use-cache path (line 368); create_multi_site_html_report opens *)
(* one index group each time the root domain changes.                      *)
(***************************************************************************)
MaxSiteList == 3

Letters ==
    <<"a", "b", "c", "d", "e", "f", "g", "h", "i", "j", "k", "l", "m",
      "n", "o", "p", "q", "r", "s", "t", "u", "v", "w", "x", "y", "z">>

\* The code point of a character, by which Python orders strings.
Ord(c) ==
    CASE c = "-" -> 45
      [] c = "." -> 46
      [] c = "/" -> 47
      [] c = ":" -> 58
      [] OTHER -> 96 + CHOOSE k \in 1..Len(Letters) : Letters[k] = c

RECURSIVE StrLess(_, _)
\* a < b for two str values: the first differing character decides, and a
\* proper prefix is smaller.
StrLess(a, b) ==
    IF b = <<>> THEN FALSE
    ELSE IF a = <<>> THEN TRUE
    ELSE IF Head(a) # Head(b) THEN Ord(Head(a)) < Ord(Head(b))
    ELSE StrLess(Tail(a), Tail(b))

\* a < b for two tuples (root_domain, order, subdomain).
KeyLess(a, b) ==
    \/ StrLess(a.root_domain, b.root_domain)
    \/ /\ a.root_domain = b.root_domain
       /\ \/ a.order < b.order
          \/ a.order = b.order /\ StrLess(a.subdomain, b.subdomain)

RECURSIVE Unique(_)
\* Series.unique(): the distinct values in order of first appearance.
Unique(list) ==
    IF list = <<>> THEN <<>>
    ELSE LET init == Unique(SubSeq(list, 1, Len(list) - 1))
             last == list[Len(list)]
         IN  IF \E k \in 1..Len(init) : init[k] = last THEN init
             ELSE Append(init, last)

\* One step of a stable sort: x goes behind every element whose key is not
\* greater than its own.
InsertByKey(sorted, x) ==
    LET behind == {k \in 1..Len(sorted) :
                     KeyLess(get_sort_key(x), get_sort_key(sorted[k]))}
        at == IF behind = {} THEN Len(sorted) + 1
              ELSE CHOOSE k \in behind : \A m \in behind : k <= m
    IN  SubSeq(sorted, 1, at - 1) \o <<x>> \o SubSeq(sorted, at, Len(sorted))

RECURSIVE SortByKey(_)
\* sorted(list, key=get_sort_key) and list.sort(key=get_sort_key): stable,
\* ascending.
SortByKey(list) ==
    IF list = <<>> THEN <<>>
    ELSE InsertByKey(SortByKey(SubSeq(list, 1, Len(list) - 1)), list[Len(list)])

\* A cache path that takes the sites in the order of the CSV rows.
CachedSites_AsLoaded(column) == Unique(column)

\* Line 368: the sites of a cached CSV.
CachedSites(column) == SortByKey(Unique(column))

\* Line 382: the sites of the account.
AccountSites(listed) == SortByKey(listed)

RECURSIVE IndexGroups(_)
\* Lines 128-143: a group is opened when the root domain of a site differs
\* from the root domain of the site before it; entries of class 2 are
\* indented.
IndexGroups(sorted_sites) ==
    IF sorted_sites = <<>> THEN <<>>
    ELSE LET n == Len(sorted_sites)
             before == IndexGroups(SubSeq(sorted_sites, 1, n - 1))
             site == sorted_sites[n]
             key == get_sort_key(site)
             entry == [site |-> site, indented |-> key.order \notin {0, 1}]
         IN  IF n = 1 \/ get_sort_key(sorted_sites[n - 1]).root_domain
                           # key.root_domain
             THEN Append(before, [root_domain |-> key.root_domain,
                                  entries |-> <<entry>>])
             ELSE [before EXCEPT ![Len(before)].entries = Append(@, entry)]

\* The properties of the modelled account.
SitePool ==
    LET ex == <<"e", "x", "a", "m", "p", "l", "e">>
        couk == <<<<"c", "o">>, <<"u", "k">>>>
    IN  {SiteText("domain", <<ex>> \o couk),
         SiteText("https", <<<<"w", "w", "w">>, ex>> \o couk),
         SiteText("http", <<<<"w", "w", "w">>, ex>> \o couk),
         SiteText("https", <<<<"b", "l", "o", "g">>, ex>> \o couk),
         SiteText("https", <<<<"m">>, ex>> \o couk),
         SiteText("domain", <<<<"e", "e">>>> \o couk),
         SiteText("https", <<<<"m">>, ex, <<"c", "o", "m">>>>)}

SiteLists == UNION {[1..n -> SitePool] : n \in 1..MaxSiteList}

\* Lines 364-368 and 377-382: the site list of a run without site_url.
SortSites ==
    /\ script = "sites" /\ pc = "sort"
    /\ sites' = IF args.use_cache THEN CachedSites(site_in)
                ELSE AccountSites(site_in)
    /\ pc' = "report"
    /\ UNCHANGED <<runVars, script, driverVars, calls, fetchVars, all_data, today, site_idx, i,
                   totals_data, unique_queries, faults, windows, sortVars>>

\* Lines 127-143: the index of the multi-site report.
BuildIndex ==
    /\ script = "sites" /\ pc = "report"
    /\ index_groups' = IndexGroups(sites)
    /\ pc' = "done"
    /\ UNCHANGED <<args, authVars, csv_file, html_file, io_log, wrapped_data,
                   script, driverVars, calls, fetchVars, all_data, monthlyVars, windows,
                   sortVars>>

\* site_in is the site_url column of the cached CSV (one row per site and
\* month, so a site may repeat) or the list the account returned.
InitSites ==
    /\ script = "sites" /\ pc = "sort"
    /\ IdleAuth /\ IdleOutput
    /\ calls = <<>> /\ all_data = <<>>
    /\ IdleFetch /\ IdleMonthly /\ IdleWindows /\ IdleDriver
    /\ site_url = <<>> /\ sort_key = NoKey
    /\ \E cache \in BOOLEAN, list \in SiteLists :
          /\ args = [site_url |-> 0, use_cache |-> cache]
          /\ site_in = list
          /\ cache \/ \A a, b \in 1..Len(list) : list[a] = list[b] => a = b

NextSites == SortSites \/ BuildIndex

SpecSites == InitSites /\ [][NextSites]_vars

(***************************************************************************)
(* get_gsc_service (qpa lines 33-72, wrapped lines 21-57, awa lines 31-48) *)
(* and the `if not service: return` of each main.  Credentials are known   *)
(* by what the code reads of them: valid, expired and refresh_token.       *)
(***************************************************************************)
Credentials(valid, expired, refresh_token) ==
    [present |-> TRUE, valid |-> valid, expired |-> expired,
     refresh_token |-> refresh_token]

\* What creds.refresh and flow.run_local_server leave behind on success.
FreshCreds == Credentials(TRUE, FALSE, TRUE)

\* The credentials a token file can hold: valid; expired with a refresh
\* token; expired without one; and neither valid nor expired (no access
\* token, expiry not reached).
StoredCreds ==
    {FreshCreds, Credentials(FALSE, TRUE, TRUE), Credentials(FALSE, TRUE, FALSE),
     Credentials(FALSE, FALSE, TRUE)}

TokenFiles ==
    {NoTokenFile, [kind |-> "unreadable", creds |-> NoCreds]}
        \cup {[kind |-> "token", creds |-> c] : c \in StoredCreds}

RefreshOutcomes == {"ok", "RefreshError"}

FlowOutcomes == {"ok", "error"}

\* Only awa reads the token file outside a try block.
LoadIsGuarded(scr) == scr # "awa"

\* `if creds and creds.expired and creds.refresh_token`
Refreshable(c) == c.present /\ c.expired /\ c.refresh_token

\* qpa and wrapped catch exceptions.RefreshError around creds.refresh; awa
\* catches nothing.
RefreshFailureCaught(scr, outcome) == scr # "awa" /\ outcome = "RefreshError"

\* The state in which get_gsc_service goes on to the interactive grant: qpa
\* and wrapped test `if not creds` after the refresh block, awa takes the
\* else branch of the refresh test.
ReachesGrant(scr, loaded, afterRefresh) ==
    IF scr = "awa" THEN ~Refreshable(loaded) ELSE ~afterRefresh.present

\* The grant branch: without client_secret.json None is returned, otherwise
\* the flow runs, and its exception is not caught.
GrantResult(secret, flow) ==
    IF ~secret THEN "return_none" ELSE IF flow = "ok" THEN "granted" ELSE "raise"

\* get_gsc_service as a whole, for one outcome of the refresh and of the
\* flow should they be run.  result is "service", "none" or "raise".
GscService(scr, tok, secret, refresh, flow) ==
    LET loadRaises == tok.kind = "unreadable" /\ ~LoadIsGuarded(scr)
        loaded == IF tok.kind = "token" THEN tok.creds ELSE NoCreds
        log1 == IF tok.kind = "absent" THEN <<>> ELSE <<<<"load", tok.kind>>>>
        needed == ~loaded.present \/ ~loaded.valid
        refreshes == needed /\ Refreshable(loaded)
        refreshRaises ==
            refreshes /\ refresh # "ok" /\ ~RefreshFailureCaught(scr, refresh)
        removes == refreshes /\ refresh # "ok" /\ RefreshFailureCaught(scr, refresh)
        afterRefresh == IF ~refreshes THEN loaded
                        ELSE IF refresh = "ok" THEN FreshCreds ELSE NoCreds
        log2 == log1 \o (IF refreshes THEN <<<<"refresh", refresh>>>> ELSE <<>>)
                     \o (IF removes THEN <<<<"remove", "token">>>> ELSE <<>>)
        tok2 == IF removes THEN NoTokenFile ELSE tok
        grants == needed /\ ~refreshRaises /\ ReachesGrant(scr, loaded, afterRefresh)
        grant == GrantResult(secret, flow)
        log3 == log2 \o (IF grants /\ secret THEN <<<<"flow", flow>>>> ELSE <<>>)
        final == IF grants THEN FreshCreds ELSE afterRefresh
        saved == [kind |-> "token", creds |-> final]
    IN  IF loadRaises
        THEN [result |-> "raise", creds |-> NoCreds, token_file |-> tok,
              log |-> log1]
        ELSE IF refreshRaises
        THEN [result |-> "raise", creds |-> loaded, token_file |-> tok,
              log |-> log2]
        ELSE IF grants /\ grant = "return_none"
        THEN [result |-> "none", creds |-> afterRefresh, token_file |-> tok2,
              log |-> log3]
        ELSE IF grants /\ grant = "raise"
        THEN [result |-> "raise", creds |-> afterRefresh, token_file |-> tok2,
              log |-> log3]
        ELSE [result |-> "service", creds |-> final,
              token_file |-> IF needed THEN saved ELSE tok2,
              log |-> log3 \o (IF needed THEN <<<<"save", "token">>>> ELSE <<>>)
                           \o <<<<"build", "service">>>>]

\* Where main goes on with a service: qpa with a site_url argument has its
\* one-element site list (lines 375-376) and enters the loops; qpa without
\* one and awa list the account's sites; wrapped starts its paged fetch.
AfterService(scr) ==
    CASE scr = "wrapped" -> "loop"
      [] scr = "qpa" /\ args.site_url # 0 -> "totals"
      [] OTHER -> "sites"

\* service = get_gsc_service(); if not service: return
GetService ==
    /\ pc = "auth"
    /\ \E refresh \in RefreshOutcomes, flow \in FlowOutcomes :
          LET r == GscService(script, token_file, client_secret, refresh, flow) IN
          /\ creds' = r.creds
          /\ token_file' = r.token_file
          /\ auth_log' = r.log
          /\ service' = IF r.result = "service"
                        THEN [built |-> TRUE, creds |-> r.creds] ELSE NoService
          /\ pc' = CASE r.result = "raise" -> "crashed"
                     [] r.result = "none" -> "returned"
                     [] OTHER -> AfterService(script)
          /\ IF r.result = "service" /\ script = "qpa" /\ args.site_url # 0
             THEN sites' = <<args.site_url>> /\ site_idx' = 1 /\ i' = 1
             ELSE UNCHANGED <<sites, site_idx, i>>
    /\ UNCHANGED <<args, client_secret, outputVars, script, driverVars, calls, fetchVars,
                   all_data, today, totals_data, unique_queries, faults, windows,
                   sortVars>>

Scripts == {"qpa", "awa", "wrapped"}

\* The command lines of a script: site_url is 0 when the argument is absent.
ArgsOf(scr) ==
    CASE scr = "qpa" -> [site_url : {0, 1}, use_cache : BOOLEAN]
      [] scr = "awa" -> {NoArgs}
      [] OTHER -> {[site_url |-> 1, use_cache |-> FALSE]}

InitAuth ==
    /\ script \in Scripts /\ pc = "auth"
    /\ args \in ArgsOf(script)
    /\ token_file \in TokenFiles /\ client_secret \in BOOLEAN
    /\ creds = NoCreds /\ service = NoService /\ auth_log = <<>>
    /\ IdleOutput
    /\ calls = <<>> /\ all_data = <<>>
    /\ IdleFetch /\ IdleMonthly /\ IdleWindows /\ IdleSortKey /\ IdleDriver

NextAuth == GetService

SpecAuth == InitAuth /\ [][NextAuth]_vars

(***************************************************************************)
(* The text of the output files.  A float is held as its number of         *)
(* millionths; str(), the format specifications of the reports and the     *)
(* type inference of pandas.read_csv are computed on characters.           *)
(***************************************************************************)
DigitChars == <<"0", "1", "2", "3", "4", "5", "6", "7", "8", "9">>

IsDigit(c) == \E d \in 1..Len(DigitChars) : DigitChars[d] = c

DigitValue(c) == (CHOOSE d \in 1..Len(DigitChars) : DigitChars[d] = c) - 1

RECURSIVE Digits(_)
\* str(n) for an int n >= 0.
Digits(n) ==
    IF n < 10 THEN <<DigitChars[n + 1]>>
    ELSE Digits(n \div 10) \o <<DigitChars[(n % 10) + 1]>>

RECURSIVE PadDigits(_, _)
\* n in w digits, zero-padded on the left.
PadDigits(n, w) ==
    IF w = 0 THEN <<>> ELSE PadDigits(n \div 10, w - 1) \o <<DigitChars[(n % 10) + 1]>>

RECURSIVE StripZeros(_)
\* Trailing zeros removed, one digit kept.
StripZeros(t) ==
    IF Len(t) > 1 /\ t[Len(t)] = "0" THEN StripZeros(SubSeq(t, 1, Len(t) - 1))
    ELSE t

\* repr of a float, as DataFrame.to_csv writes it: the shortest decimal that
\* reads back as the same float.
ReprFloat(v) ==
    Digits(v \div 1000000) \o <<".">> \o StripZeros(PadDigits(v % 1000000, 6))

\* Rounding of v to a multiple of unit, halves to even.
RoundHalfEven(v, unit) ==
    LET q == v \div unit
        r == v % unit
    IN  IF 2 * r > unit \/ (2 * r = unit /\ q % 2 = 1) THEN q + 1 ELSE q

\* f"{x:.2%}"
FormatPct(v) ==
    LET h == RoundHalfEven(v, 100) IN
    Digits(h \div 100) \o <<".">> \o PadDigits(h % 100, 2) \o <<"%">>

\* f"{x:.2f}"
FormatFixed2(v) ==
    LET h == RoundHalfEven(v, 10000) IN
    Digits(h \div 100) \o <<".">> \o PadDigits(h % 100, 2)

RECURSIVE FormatThousands(_)
\* f"{x:,.0f}" for an int x >= 0.
FormatThousands(n) ==
    IF n < 1000 THEN Digits(n)
    ELSE FormatThousands(n \div 1000) \o <<",">> \o PadDigits(n % 1000, 3)

\* strftime('%Y-%m') of a month label.
MonthText(label) == Digits(label[1]) \o <<"-">> \o PadDigits(label[2], 2)

RECURSIVE ParseDigits(_)
ParseDigits(t) ==
    IF t = <<>> THEN 0
    ELSE ParseDigits(SubSeq(t, 1, Len(t) - 1)) * 10 + DigitValue(t[Len(t)])

AllDigits(t) == t # <<>> /\ \A k \in 1..Len(t) : IsDigit(t[k])

\* read_csv takes a column for int64 when every cell is an integer literal,
ParsesAsInt(t) == AllDigits(t)

\* and for float64 when every cell is a decimal literal.
ParsesAsFloat(t) ==
    \/ AllDigits(t)
    \/ \E d \in 1..Len(t) :
          /\ t[d] = "."
          /\ AllDigits(SubSeq(t, 1, d - 1))
          /\ AllDigits(SubSeq(t, d + 1, Len(t)))
          /\ Len(t) - d <= 6

FloatValue(t) ==
    IF AllDigits(t) THEN ParseDigits(t) * 1000000
    ELSE LET d == CHOOSE k \in 1..Len(t) : t[k] = "."
             frac == SubSeq(t, d + 1, Len(t))
             pad == [k \in 1..(6 - Len(frac)) |-> "0"]
         IN  ParseDigits(SubSeq(t, 1, d - 1)) * 1000000 + ParseDigits(frac \o pad)

\* The values of a DataFrame cell: an int, a float or a str.
IntCell(n) == [t |-> "int", v |-> <<n>>, text |-> <<>>]

FloatCell(v) == [t |-> "float", v |-> <<v>>, text |-> <<>>]

StrCell(text) == [t |-> "str", v |-> <<>>, text |-> text]

\* The cell as DataFrame.to_csv writes it.
CellText(cell) ==
    CASE cell.t = "int" -> Digits(cell.v[1])
      [] cell.t = "float" -> ReprFloat(cell.v[1])
      [] OTHER -> cell.text

(***************************************************************************)
(* The dataframe of the monthly scripts and its CSV (qpa lines 405-415,    *)
(* awa lines 151-166) and the cached CSV read back (qpa lines 364-368).    *)
(***************************************************************************)
\* The properties of the account, by number.
SiteNames ==
    LET ex == <<"e", "x", "a", "m", "p", "l", "e">>
        com == <<<<"c", "o", "m">>>>
    IN  <<SiteText("https", <<<<"w", "w", "w">>, ex>> \o com),
          SiteText("domain", <<ex>> \o com),
          SiteText("https", <<<<"b", "l", "o", "g">>, ex>> \o com),
          SiteText("domain", <<<<"e", "e">>>> \o com)>>

SiteName(n) == SiteNames[n]

SiteNumber(text) == CHOOSE n \in 1..Len(SiteNames) : SiteNames[n] = text

\* column_order (qpa line 406); awa's rows have the first six keys.
Columns(scr) ==
    IF scr = "qpa"
    THEN <<"site_url", "month", "clicks", "impressions", "ctr", "position",
           "queries", "pages">>
    ELSE <<"site_url", "month", "clicks", "impressions", "ctr", "position">>

ColumnSet(cols) == {cols[j] : j \in 1..Len(cols)}

\* pd.DataFrame(all_data): one row of cells for a row of all_data.
DataFrameRow(scr, r) ==
    [c \in ColumnSet(Columns(scr)) |->
        CASE c = "site_url" -> StrCell(SiteName(r.site_url))
          [] c = "month" -> StrCell(MonthText(r.month))
          [] c = "clicks" -> IntCell(r.clicks)
          [] c = "impressions" -> IntCell(r.impressions)
          [] c = "ctr" -> FloatCell(r.ctr)
          [] c = "position" -> FloatCell(r.position)
          [] c = "queries" -> IntCell(r.queries)
          [] OTHER -> IntCell(r.pages)]

DataFrame(scr, rows) == [k \in 1..Len(rows) |-> DataFrameRow(scr, rows[k])]

\* The ctr and position columns as text: f"{x:.2%}" and f"{x:.2f}".
FormatRatios(frame) ==
    [k \in 1..Len(frame) |->
        [frame[k] EXCEPT !["ctr"] = StrCell(FormatPct(@.v[1])),
                         !["position"] = StrCell(FormatFixed2(@.v[1]))]]

\* The frame given to to_csv: awa lines 154-155 replace the columns of df
\* before line 166 writes it; qpa writes df as built.
FrameToExport(scr, frame) == IF scr = "awa" THEN FormatRatios(frame) ELSE frame

\* df.to_csv(path, index=False): the header and one line per row.
CsvLines(cols, frame) ==
    <<cols>> \o [k \in 1..Len(frame) |->
                    [j \in 1..Len(cols) |-> CellText(frame[k][cols[j]])]]

\* pd.read_csv(path): the type of a column is inferred from all its cells.
ReadCell(lines, j, text) ==
    IF \A k \in 2..Len(lines) : ParsesAsInt(lines[k][j])
    THEN IntCell(ParseDigits(text))
    ELSE IF \A k \in 2..Len(lines) : ParsesAsFloat(lines[k][j])
    THEN FloatCell(FloatValue(text))
    ELSE StrCell(text)

ReadCsv(lines) ==
    LET cols == lines[1] IN
    [k \in 1..(Len(lines) - 1) |->
        [c \in ColumnSet(cols) |->
            LET j == CHOOSE n \in 1..Len(cols) : cols[n] = c
            IN  ReadCell(lines, j, lines[k + 1][j])]]

\* The number in a cell, in millionths.
Millionths(cell) == IF cell.t = "int" THEN cell.v[1] * 1000000 ELSE cell.v[1]

\* The report table: lines 429-434 (multi-site) and 161-166 (single site)
\* format a copy of the frame; awa's create_html_report prints df as it is.
HtmlCell(scr, c, cell) ==
    IF scr = "awa" THEN CellText(cell)
    ELSE CASE c \in {"clicks", "impressions", "queries", "pages"} ->
                  FormatThousands(IF cell.t = "int" THEN cell.v[1]
                                  ELSE RoundHalfEven(cell.v[1], 1000000))
           [] c = "ctr" -> FormatPct(Millionths(cell))
           [] c = "position" -> FormatFixed2(Millionths(cell))
           [] OTHER -> cell.text

HtmlTable(scr, frame) ==
    LET cols == Columns(scr) IN
    [k \in 1..Len(frame) |-> [j \in 1..Len(cols) |-> HtmlCell(scr, cols[j], frame[k][cols[j]])]]

\* df[df['site_url'] == site]
RowsOfSite(frame, text) ==
    SelectSeq(frame, LAMBDA row : row["site_url"] = StrCell(text))

RECURSIVE SiteSections(_, _, _)
\* generate_site_sections: the tables of the sites, in the order of the list.
SiteSections(scr, frame, names) ==
    IF names = <<>> THEN <<>>
    ELSE HtmlTable(scr, RowsOfSite(frame, Head(names)))
            \o SiteSections(scr, frame, Tail(names))

(***************************************************************************)
(* generate_gsc_wrapped.py: the aggregates of the narrative, lines         *)
(* 191-213.  groupby(...)['clicks'].sum() is indexed by the sorted keys    *)
(* and nlargest(1) takes the first of the largest values in that order.    *)
(***************************************************************************)
\* df['date'].dt.to_period('M')
PeriodOf(date) == <<date.year, date.month>>

\* The key of a row in the grouping by page, by query or by month.
KeyOf(row, col) ==
    CASE col = "page" -> row.page
      [] col = "query" -> row.query
      [] OTHER -> PeriodOf(row.date)

\* The order of the group index: str order for pages and queries, time
\* order for months.
GroupKeyLess(col, a, b) ==
    IF col = "month" THEN a[1] < b[1] \/ (a[1] = b[1] /\ a[2] < b[2])
    ELSE StrLess(a, b)

RECURSIVE SumClicks(_, _, _)
\* The sum of clicks of the rows of one group.
SumClicks(rows, col, key) ==
    IF rows = <<>> THEN 0
    ELSE (IF KeyOf(Head(rows), col) = key THEN Head(rows).clicks ELSE 0)
            + SumClicks(Tail(rows), col, key)

GroupKeys(rows, col) == {KeyOf(rows[k], col) : k \in 1..Len(rows)}

IsLargest(rows, col, key) ==
    \A other \in GroupKeys(rows, col) :
        SumClicks(rows, col, other) <= SumClicks(rows, col, key)

\* df.groupby(col)['clicks'].sum().nlargest(1): among the largest groups,
\* the one with the least key.
TopGroup(rows, col) ==
    CHOOSE key \in GroupKeys(rows, col) :
        /\ IsLargest(rows, col, key)
        /\ \A other \in GroupKeys(rows, col) :
              IsLargest(rows, col, other) => ~GroupKeyLess(col, other, key)

Aggregates(rows) ==
    [top_page |-> TopGroup(rows, "page"),
     top_query |-> TopGroup(rows, "query"),
     most_clicked_month |-> TopGroup(rows, "month")[2]]

\* Lines 191-213.
Analyse ==
    /\ script = "wrapped" /\ pc = "analysis"
    /\ wrapped_data' = Aggregates(df.rows)
    /\ pc' = "report"
    /\ UNCHANGED <<args, authVars, csv_file, html_file, io_log, index_groups, script, driverVars,
                   calls, fetchVars, all_data, monthlyVars, windows, sortVars>>

(***************************************************************************)
(* A whole run of a script: the cache test of qpa, get_gsc_service, the    *)
(* site list, the fetch, and the output stage.                             *)
(***************************************************************************)
\* What sites().list() can return: no property, or the one property of the
\* account.
AccountLists == {<<>>, <<1>>}

Names(list) == [k \in 1..Len(list) |-> SiteName(list[k])]

Numbers(texts) == [k \in 1..Len(texts) |-> SiteNumber(texts[k])]

\* A test that never takes the cached file.
UsesCache_Never(a, file) == FALSE

\* Line 364: if args.use_cache and os.path.exists(csv_output_path)
UsesCache(a, file) == a.use_cache /\ ~file.isNone

\* Lines 364-370: with --use-cache and the CSV in place, df and sites come
\* from the file and the block `if df is None` is skipped.
CheckCache ==
    /\ script = "qpa" /\ pc = "start"
    /\ IF UsesCache(args, csv_file)
       THEN LET frame == ReadCsv(csv_file.rows) IN
            /\ df' = Some(frame)
            /\ sites' = Numbers(CachedSites(
                            [k \in 1..Len(frame) |-> frame[k]["site_url"].text]))
            /\ pc' = "report"
       ELSE /\ pc' = "auth"
            /\ UNCHANGED <<df, sites>>
    /\ UNCHANGED <<runVars, script, driverVars, calls, row_limit, source_rows, start_row,
                   raw_data, handling, all_data, today, site_idx, i, totals_data,
                   unique_queries, faults, windows, sortVars>>

SiteListAnswers == {"sites", "HttpError", "exception"}

\* get_all_sites: qpa (lines 74-83) catches HttpError only, awa (lines
\* 50-61) every exception.
SiteListRaises(scr, ans) == scr = "qpa" /\ ans = "exception"

\* sites = get_all_sites(service); `if not sites: return`; qpa then sorts
\* the list (lines 378-382, awa lines 118-121).
ListSites(lists) ==
    /\ script \in {"qpa", "awa"} /\ pc = "sites"
    /\ \E ans \in SiteListAnswers, list \in lists :
          /\ ans # "sites" => list = <<>>
          /\ calls' = Append(calls, [site |-> 0, window |-> 0, kind |-> "sites",
                                     answer |-> ans])
          /\ IF SiteListRaises(script, ans)
             THEN pc' = "crashed" /\ UNCHANGED <<sites, site_idx, i>>
             ELSE IF list = <<>>
             THEN pc' = "no_sites" /\ UNCHANGED <<sites, site_idx, i>>
             ELSE /\ sites' = IF script = "qpa"
                              THEN Numbers(AccountSites(Names(list))) ELSE list
                  /\ site_idx' = 1 /\ i' = 1
                  /\ pc' = "totals"
    /\ UNCHANGED <<runVars, script, driverVars, fetchVars, all_data, today, totals_data,
                   unique_queries, faults, windows, sortVars>>

\* The listing for an account of at most one property.
GetAllSites == ListSites(AccountLists)

\* How a write to the output directory can end.
WriteOutcomes == {"ok", "PermissionError", "OSError"}

\* What a script does when a write fails: "continue" with the next step of
\* the output stage, "return" from main, or "raise".  wrapped catches
\* IOError around each write (lines 183-187, 251-256), qpa PermissionError
\* only, returning after the CSV (lines 413-415), awa nothing.
OnCsvFailure(scr, outcome) ==
    CASE scr = "wrapped" -> "continue"
      [] scr = "qpa" /\ outcome = "PermissionError" -> "return"
      [] OTHER -> "raise"

OnHtmlFailure(scr, outcome) ==
    CASE scr = "wrapped" -> "return"
      [] scr = "qpa" /\ outcome = "PermissionError" -> "return"
      [] OTHER -> "raise"

\* The CSV of the monthly scripts: qpa lines 405-415, awa lines 151-166.
ExportCsv ==
    /\ script \in {"qpa", "awa"} /\ pc = "frame"
    /\ LET frame == FrameToExport(script, DataFrame(script, df.rows)) IN
       /\ df' = Some(frame)
       /\ \E outcome \in WriteOutcomes :
             /\ io_log' = Append(io_log, <<"csv", outcome>>)
             /\ IF outcome = "ok"
                THEN /\ csv_file' = Some(CsvLines(Columns(script), frame))
                     /\ pc' = "report"
                ELSE /\ UNCHANGED csv_file
                     /\ pc' = IF OnCsvFailure(script, outcome) = "return"
                              THEN "returned" ELSE "crashed"
    /\ UNCHANGED <<args, authVars, html_file, index_groups, wrapped_data, script, driverVars,
                   calls, row_limit, source_rows, start_row, raw_data, handling,
                   all_data, monthlyVars, windows, sortVars>>

\* The raw rows of wrapped as CSV lines.
RawCsvLines(rows) ==
    <<<<"clicks", "date", "query", "page">>>>
        \o [k \in 1..Len(rows) |->
              <<Digits(rows[k].clicks),
                MonthText(<<rows[k].date.year, rows[k].date.month>>)
                    \o <<"-">> \o PadDigits(rows[k].date.day, 2),
                rows[k].query, rows[k].page>>]

\* wrapped lines 162-189: the raw rows are saved; a failure is printed and
\* the analysis goes on.
ExportRawCsv ==
    /\ script = "wrapped" /\ pc = "done" /\ handling = "report"
    /\ \E outcome \in WriteOutcomes :
          /\ io_log' = Append(io_log, <<"csv", outcome>>)
          /\ csv_file' = IF outcome = "ok" THEN Some(RawCsvLines(df.rows))
                         ELSE csv_file
    /\ pc' = "analysis"
    /\ UNCHANGED <<args, authVars, html_file, index_groups, wrapped_data, script, driverVars,
                   calls, fetchVars, all_data, monthlyVars, windows, sortVars>>

\* The body of the report: the tables of qpa (lines 424-435), the table of
\* awa (line 172), the narrative of wrapped (lines 215-249).
ReportBody(scr) ==
    CASE scr = "wrapped" -> <<wrapped_data>>
      [] scr = "awa" -> HtmlTable(scr, df.rows)
      [] scr = "qpa" /\ args.site_url # 0 ->
            HtmlTable(scr, RowsOfSite(df.rows, SiteName(args.site_url)))
      [] OTHER -> SiteSections(scr, df.rows, Names(sites))

\* The report is built and written: qpa lines 417-441, awa lines 168-175,
\* wrapped lines 215-256.
WriteReport ==
    /\ script \in Scripts /\ pc = "report"
    /\ index_groups' = IF script = "qpa" /\ args.site_url = 0
                       THEN IndexGroups(Names(sites)) ELSE index_groups
    /\ \E outcome \in WriteOutcomes :
          /\ io_log' = Append(io_log, <<"html", outcome>>)
          /\ IF outcome = "ok"
             THEN /\ html_file' = Some(ReportBody(script))
                  /\ pc' = "finished"
             ELSE /\ UNCHANGED html_file
                  /\ pc' = IF OnHtmlFailure(script, outcome) = "return"
                           THEN "finished" ELSE "crashed"
    /\ UNCHANGED <<args, authVars, csv_file, wrapped_data, script, driverVars, calls, fetchVars,
                   all_data, monthlyVars, windows, sortVars>>

\* The rows the API holds for wrapped: clicks by date, query and page.
Jan(d) == [year |-> 2023, month |-> 1, day |-> d]

Feb(d) == [year |-> 2023, month |-> 2, day |-> d]

PagePool == {<<"/", "a">>, <<"/", "b">>, <<"/", "c">>}

QueryDates == {[query |-> <<"x">>, date |-> Feb(1)], [query |-> <<"y">>, date |-> Jan(31)]}

RawRow(clicks, page, qd) ==
    [clicks |-> clicks, date |-> qd.date, query |-> qd.query, page |-> page]

RowPool == {RawRow(c, p, qd) : c \in {10, 30}, p \in PagePool, qd \in QueryDates}

WrappedSources ==
    {<<>>,
     <<RawRow(10, <<"/", "a">>, [query |-> <<"x">>, date |-> Jan(5)]),
       RawRow(30, <<"/", "c">>, [query |-> <<"y">>, date |-> Feb(7)]),
       RawRow(30, <<"/", "b">>, [query |-> <<"x">>, date |-> Feb(9)])>>}

\* The token and the client secret of a run that is not about them.
ValidToken == [kind |-> "token", creds |-> FreshCreds]

\* The CSV an earlier run of qpa left at the output path of these arguments:
\* two months of every site of that run.
PreviousCsv(a) ==
    LET list == IF a.site_url # 0 THEN <<a.site_url>>
                ELSE Numbers(AccountSites(Names(<<1, 2>>)))
        t == [year |-> 2024, month |-> 3, day |-> 15]
        rows == [k \in 1..(2 * Len(list)) |->
                    LET s == list[(k + 1) \div 2]
                        w == 2 - (k % 2)
                    IN  MonthRow("qpa", s, t, w, TotalsRow(s, w),
                                 QueryRowCount(s, w), PageRowCount(s, w))]
    IN  CsvLines(Columns("qpa"), DataFrame("qpa", rows))

InitRun ==
    /\ script \in Scripts
    /\ args \in ArgsOf(script)
    /\ pc = IF script = "qpa" THEN "start" ELSE "auth"
    /\ token_file = ValidToken /\ client_secret = TRUE
    /\ creds = NoCreds /\ service = NoService /\ auth_log = <<>>
    /\ csv_file \in (IF script = "qpa" THEN {None, Some(PreviousCsv(args))}
                     ELSE {None})
    /\ html_file = None /\ io_log = <<>>
    /\ index_groups = <<>> /\ wrapped_data = NoAggregates
    /\ calls = <<>> /\ all_data = <<>>
    /\ IF script = "wrapped"
       THEN /\ row_limit = 2 /\ source_rows \in WrappedSources /\ start_row = 0
            /\ today = NoDate
       ELSE /\ row_limit = 0 /\ source_rows = <<>> /\ start_row = 0
            /\ today = [year |-> 2024, month |-> 3, day |-> 15]
    /\ raw_data = None /\ handling = "none" /\ df = None
    /\ sites = <<>> /\ site_idx = 0 /\ i = 0
    /\ totals_data = None /\ unique_queries = 0 /\ faults = 0
    /\ IdleWindows /\ IdleSortKey /\ IdleDriver

NextRun ==
    \/ CheckCache \/ GetService \/ GetAllSites
    \/ TotalsRequest \/ QueriesRequest \/ PagesRequest \/ BuildFrame
    \/ QueryPage \/ QueryFails \/ WrappedMain
    \/ ExportCsv \/ ExportRawCsv \/ Analyse \/ WriteReport

SpecRun == InitRun /\ [][NextRun]_vars

(***************************************************************************)
(* The analysis of wrapped on its own, for the row sequences of up to      *)
(* MaxNarrative rows: the state is the one main is in at line 189.         *)
(***************************************************************************)
MaxNarrative == 3

RowSequences == UNION {[1..n -> RowPool] : n \in 1..MaxNarrative}

InitNarrative ==
    /\ script = "wrapped" /\ pc = "analysis"
    /\ args = [site_url |-> 1, use_cache |-> FALSE]
    /\ token_file = ValidToken /\ client_secret = TRUE
    /\ creds = FreshCreds /\ service = [built |-> TRUE, creds |-> FreshCreds]
    /\ auth_log = <<<<"load", "token">>, <<"build", "service">>>>
    /\ \E rows \in RowSequences :
          /\ source_rows = rows /\ all_data = rows
          /\ raw_data = Some(rows) /\ df = Some(rows)
          /\ row_limit = Len(rows) + 1 /\ start_row = 0
          /\ calls = <<[startRow |-> 0, answer |-> "rows", n |-> Len(rows)]>>
          /\ csv_file = Some(RawCsvLines(rows))
    /\ handling = "report"
    /\ html_file = None /\ io_log = <<<<"csv", "ok">>>>
    /\ index_groups = <<>> /\ wrapped_data = NoAggregates
    /\ IdleMonthly /\ IdleWindows /\ IdleSortKey /\ IdleDriver

NextNarrative == Analyse

SpecNarrative == InitNarrative /\ [][NextNarrative]_vars

(***************************************************************************)
(* The requests of a run, from get_gsc_service to the end of the fetch:    *)
(* a stored token that has expired, an account of two properties for the   *)
(* monthly scripts and a paged source for wrapped.  The run is followed up *)
(* to the point where main has its rows and turns to its output.           *)
(***************************************************************************)
\* What sites().list() can return for an account of two properties.
TwoSiteAccountLists == {<<>>, <<1, 2>>}

GetAllSitesOfTwo == ListSites(TwoSiteAccountLists)

\* A stored token that has expired and carries a refresh token.
ExpiredToken == [kind |-> "token", creds |-> Credentials(FALSE, TRUE, TRUE)]

InitRequests ==
    /\ script \in Scripts /\ pc = "auth"
    /\ args = IF script = "wrapped" THEN [site_url |-> 1, use_cache |-> FALSE]
              ELSE NoArgs
    /\ token_file = ExpiredToken /\ client_secret \in BOOLEAN
    /\ creds = NoCreds /\ service = NoService /\ auth_log = <<>>
    /\ IdleOutput
    /\ calls = <<>> /\ all_data = <<>>
    /\ IF script = "wrapped"
       THEN /\ row_limit \in 1..MaxLimit
            /\ \E r \in 0..MaxRows : source_rows = [k \in 1..r |-> k]
            /\ today = NoDate
       ELSE /\ row_limit = 0 /\ source_rows = <<>>
            /\ today = [year |-> 2024, month |-> 3, day |-> 15]
    /\ start_row = 0 /\ raw_data = None /\ handling = "none" /\ df = None
    /\ sites = <<>> /\ site_idx = 0 /\ i = 0
    /\ totals_data = None /\ unique_queries = 0 /\ faults = 0
    /\ IdleWindows /\ IdleSortKey /\ IdleDriver

NextRequests ==
    \/ GetService \/ GetAllSitesOfTwo
    \/ TotalsRequest \/ QueriesRequest \/ PagesRequest \/ BuildFrame
    \/ QueryPage \/ QueryFails \/ WrappedMain

SpecRequests == InitRequests /\ [][NextRequests]_vars

(***************************************************************************)
(* run_for_sites.py: main.  A child is one call of subprocess.run; the     *)
(* call blocks until the child has exited, so a child that was started is  *)
(* "running" until the step that ends it.                                  *)
(***************************************************************************)
MaxDriverSites == 2

Whitespace == {" ", "\n", "\t"}

\* str.strip()
RECURSIVE StripLeft(_)
StripLeft(t) ==
    IF t # <<>> /\ Head(t) \in Whitespace THEN StripLeft(Tail(t)) ELSE t

RECURSIVE StripRight(_)
StripRight(t) ==
    IF t # <<>> /\ t[Len(t)] \in Whitespace
    THEN StripRight(SubSeq(t, 1, Len(t) - 1)) ELSE t

Strip(t) == StripLeft(StripRight(t))

\* Line 50: a line is kept when, stripped, it is not empty and does not
\* start with '#'.
KeepsLine(line) == Strip(line) # <<>> /\ Head(Strip(line)) # "#"

\* Line 50: the list comprehension over the lines of the file.
RECURSIVE ReadSitesFile(_)
ReadSitesFile(lines) ==
    IF lines = <<>> THEN <<>>
    ELSE (IF KeepsLine(Head(lines)) THEN <<Strip(Head(lines))>> ELSE <<>>)
             \o ReadSitesFile(Tail(lines))

\* The lines a sites file can hold, as the file iterator yields them.
LinePool ==
    {<<"a", "\n">>, <<" ", "b", " ", "\n">>, <<"\n">>, <<"#", "a", "\n">>,
     <<" ", "#", "b", "\n">>, <<"b">>}

SiteArgPool == {<<"a">>, <<"b">>}

\* Files of up to one line more than the longest list of sites.
SitesFiles == UNION {[1..n -> LinePool] : n \in 0..(MaxDriverSites + 1)}

SiteArgLists == UNION {[1..n -> SiteArgPool] : n \in 0..MaxDriverSites}

\* The command lines: sites given directly, a sites file that exists or does
\* not, neither, and both.
CommandLines ==
    {[script_exists |-> e, sites |-> l, file_given |-> FALSE,
      file_exists |-> FALSE, lines |-> <<>>, other_args |-> o] :
         e \in BOOLEAN, l \in SiteArgLists, o \in {<<>>, <<"--last-7-days">>}}
    \cup
    {[script_exists |-> e, sites |-> <<>>, file_given |-> TRUE,
      file_exists |-> TRUE, lines |-> f, other_args |-> o] :
         e \in BOOLEAN, f \in SitesFiles, o \in {<<>>, <<"--last-7-days">>}}
    \cup
    {[script_exists |-> e, sites |-> l, file_given |-> TRUE,
      file_exists |-> FALSE, lines |-> <<>>, other_args |-> <<>>] :
         e \in BOOLEAN, l \in {<<>>, <<<<"a">>>>}}

\* The mutually exclusive, required group of lines 34-36: exactly one of the
\* positional sites and --sites-file must be given.
ArgparseAccepts(a) == (a.sites # <<>>) # a.file_given

\* Lines 39-62: parse, test the script, load the sites, test the list.
StartDriver ==
    /\ script = "run_for_sites" /\ pc = "start"
    /\ IF ~ArgparseAccepts(argv)
       THEN pc' = "usage_error" /\ UNCHANGED sites_to_process
       ELSE IF ~argv.script_exists
       THEN pc' = "returned" /\ UNCHANGED sites_to_process
       ELSE IF argv.file_given /\ ~argv.file_exists
       THEN pc' = "returned" /\ UNCHANGED sites_to_process
       ELSE /\ sites_to_process' = IF argv.file_given
                                   THEN ReadSitesFile(argv.lines) ELSE argv.sites
            /\ pc' = IF sites_to_process' = <<>> THEN "returned" ELSE "loop"
    /\ UNCHANGED <<runVars, script, argv, children, calls, fetchVars, all_data,
                   monthlyVars, windows, sortVars>>

\* A loop that stops at the first child that fails in any way.
AfterChild_StopsOnAnyError(outcome) ==
    IF outcome \in {"FileNotFoundError", "Exception", "nonzero"} THEN "break"
    ELSE "continue"

\* What the loop does after a call of subprocess.run: `break` in the except
\* FileNotFoundError branch (line 97), otherwise the next iteration.
AfterChild(outcome) ==
    IF outcome = "FileNotFoundError" THEN "break" ELSE "continue"

\* The position of main after a call that ended with this outcome.
AfterCall(outcome, made) ==
    IF AfterChild(outcome) = "break" THEN "stopped"
    ELSE IF made < Len(sites_to_process) THEN "loop" ELSE "finished"

\* The command of line 68.
Command(site) == <<"py", "script_to_run", site>> \o argv.other_args

\* Lines 64-74: the next site of the list and the call of subprocess.run,
\* which starts the child or raises.
RunChild ==
    /\ script = "run_for_sites" /\ pc = "loop"
    /\ LET site == sites_to_process[Len(children) + 1] IN
       \E outcome \in {"running", "FileNotFoundError", "Exception"} :
          /\ children' = Append(children, [site |-> site, command |-> Command(site),
                                           outcome |-> outcome])
          /\ pc' = IF outcome = "running" THEN "wait"
                   ELSE AfterCall(outcome, Len(children) + 1)
    /\ UNCHANGED <<runVars, script, argv, sites_to_process, calls, fetchVars,
                   all_data, monthlyVars, windows, sortVars>>

\* Lines 74-99: the child exits with a return code, or reading its output
\* raises; main prints and goes on.
ChildExits ==
    /\ script = "run_for_sites" /\ pc = "wait"
    /\ \E outcome \in {"exit0", "nonzero", "Exception"} :
          /\ children' = [children EXCEPT ![Len(children)].outcome = outcome]
          /\ pc' = AfterCall(outcome, Len(children))
    /\ UNCHANGED <<runVars, script, argv, sites_to_process, calls, fetchVars,
                   all_data, monthlyVars, windows, sortVars>>

InitDriver ==
    /\ script = "run_for_sites" /\ pc = "start"
    /\ argv \in CommandLines
    /\ sites_to_process = <<>> /\ children = <<>>
    /\ IdleRun
    /\ calls = <<>> /\ all_data = <<>>
    /\ IdleFetch /\ IdleMonthly /\ IdleWindows /\ IdleSortKey

NextDriver == StartDriver \/ RunChild \/ ChildExits

SpecDriver == InitDriver /\ [][NextDriver]_vars

(***************************************************************************)
(* Properties of the paged fetcher and its caller.                         *)
(***************************************************************************)
FailureAnswers == {"HttpError", "Exception"}

NoCallFailed == \A k \in 1..Len(calls) : calls[k].answer \notin FailureAnswers

CeilDiv(a, b) == (a + b - 1) \div b

\* ceil(R/P) calls when R is not a multiple of P, R/P + 1 calls when it is.
ExpectedCalls(r, p) == IF r % p = 0 THEN (r \div p) + 1 ELSE CeilDiv(r, p)

\* C1: with no request failing, get_gsc_data returns exactly the rows of the
\* source, in source order, each once, and issues ceil(R/P) requests when R is
\* not a multiple of the page limit P and R/P + 1 requests when it is.
C1_PaginationExact ==
    (script = "wrapped" /\ pc \in {"returned", "done"} /\ NoCallFailed) =>
        /\ raw_data = Some(source_rows)
        /\ Len(calls) = ExpectedCalls(Len(source_rows), row_limit)
        /\ \A k \in 1..Len(calls) : calls[k].startRow = (k - 1) * row_limit

\* Two full pages and a short third one: three requests, every row returned.
C1_Witness ==
    /\ script = "wrapped" /\ pc = "returned" /\ NoCallFailed
    /\ Len(calls) = 3
    /\ calls[1].n = row_limit /\ calls[2].n = row_limit
    /\ calls[3].n > 0 /\ calls[3].n < row_limit
    /\ Len(raw_data.rows) = 2 * row_limit + calls[3].n

\* C2: when a request of get_gsc_data fails, after any number of accumulated
\* pages, the fetch returns None (not the accumulated rows) and the failing
\* request is the last one of the fetch.
C2_NoPartialResult ==
    script = "wrapped" =>
        \A k \in 1..Len(calls) :
            calls[k].answer \in FailureAnswers =>
                /\ k = Len(calls)
                /\ pc \in {"returned", "done"}
                /\ raw_data = None

\* A request failed after at least one page had been accumulated.
C2_Witness ==
    /\ script = "wrapped" /\ pc = "returned"
    /\ Len(calls) >= 2
    /\ calls[Len(calls)].answer \in FailureAnswers
    /\ Len(all_data) > 0
    /\ raw_data = None

\* C3: main handles a failed fetch (None) differently from a successful fetch
\* of zero rows (the empty list), and never builds its dataframe from a
\* truncated page set.
C3_CallerDistinguishesFailure ==
    (script = "wrapped" /\ pc = "done") =>
        /\ ~NoCallFailed => handling # MainBranch(Some(<<>>))
        /\ ~df.isNone => df.rows = source_rows

(***************************************************************************)
(* Properties of the monthly windows.                                      *)
(***************************************************************************)
\* The calendar month k months before the month of date t.
MonthsBefore(t, k) ==
    LET idx == t.year * 12 + (t.month - 1) - k
    IN  [year |-> idx \div 12, month |-> (idx % 12) + 1]

MonthLength(y, m) ==
    CASE m \in {1, 3, 5, 7, 8, 10, 12} -> 31
      [] m \in {4, 6, 9, 11} -> 30
      [] OTHER -> IF y % 400 = 0 \/ (y % 4 = 0 /\ y % 100 # 0) THEN 29 ELSE 28

\* The day after date d.
NextDay(d) ==
    IF d.day < MonthLength(d.year, d.month) THEN [d EXCEPT !.day = d.day + 1]
    ELSE IF d.month < 12 THEN [year |-> d.year, month |-> d.month + 1, day |-> 1]
    ELSE [year |-> d.year + 1, month |-> 1, day |-> 1]

DateBefore(a, b) ==
    \/ a.year < b.year
    \/ a.year = b.year /\ a.month < b.month
    \/ a.year = b.year /\ a.month = b.month /\ a.day < b.day

Date(y, m, d) == [year |-> y, month |-> m, day |-> d]

\* C8: the loop i = 1..16 produces 16 windows; window k spans the whole
\* calendar month k months before the month of the reference date, the
\* windows decrease strictly, do not overlap and are contiguous; and the
\* reference date 2024-03-15 gives window 1 = [2024-02-01, 2024-02-29] and
\* window 13 = [2023-02-01, 2023-02-28].
C8_MonthlyWindows ==
    script = "windows" =>
        /\ pc = "done" => Len(windows) = 16
        /\ \A k \in 1..Len(windows) :
              LET ym == MonthsBefore(today, k) IN
              /\ windows[k].start = Date(ym.year, ym.month, 1)
              /\ windows[k].end = Date(ym.year, ym.month, MonthLength(ym.year, ym.month))
        /\ \A k \in 1..(Len(windows) - 1) :
              /\ DateBefore(windows[k + 1].end, windows[k].start)
              /\ NextDay(windows[k + 1].end) = windows[k].start
        /\ (today = Date(2024, 3, 15) /\ Len(windows) >= 13) =>
              /\ windows[1] = [start |-> Date(2024, 2, 1), end |-> Date(2024, 2, 29)]
              /\ windows[13] = [start |-> Date(2023, 2, 1), end |-> Date(2023, 2, 28)]

\* All 16 windows of the reference date 2024-03-15 have been generated.
C8_Witness ==
    /\ script = "windows" /\ pc = "done"
    /\ today = Date(2024, 3, 15)
    /\ Len(windows) = 16
    /\ windows[16].start = Date(2022, 11, 1)

(***************************************************************************)
(* Properties of the monthly fetch loops.                                  *)
(***************************************************************************)
Monthly == script \in {"qpa", "awa"}

\* The month label of window w of the run.
WindowMonth(w) == MonthLabel(Window(today, w).start)

\* The window whose month has this label: the number of months from the
\* month of the label to the month of today.
WindowOfMonth(label) == (today.year * 12 + today.month) - (label[1] * 12 + label[2])

\* all_data holds a row of site s and window w.
HasRow(s, w) ==
    \E k \in 1..Len(all_data) :
        all_data[k].site_url = s /\ WindowOfMonth(all_data[k].month) = w

\* Request j of the run asked for (s, w) with this kind.
IsRequest(j, s, w, kind) ==
    calls[j].site = s /\ calls[j].window = w /\ calls[j].kind = kind

\* The loops have been left in the ordinary way.
LoopsEnded == pc \in {"after_loop", "no_data", "frame"}

\* C4: once a request for a site has been answered with permission denied
\* (HTTP 403), no further request is issued for that site in the run.
C4_PermissionDeniedShortCircuit ==
    Monthly =>
        \A j \in 1..Len(calls) : \A k \in 1..Len(calls) :
            (j < k /\ calls[j].answer = "http403") => calls[k].site # calls[j].site

\* Request j made queries-pages-analysis.py abandon its site.
Abandons(j) == calls[j].kind = "totals" /\ calls[j].answer = "http403"

\* Site s has had its windows requested, up to the one that was denied.
FetchedThrough(s) ==
    \A w \in 1..NumWindows :
        \/ \E j \in 1..Len(calls) : IsRequest(j, s, w, "totals")
        \/ \E j \in 1..Len(calls) :
              calls[j].site = s /\ calls[j].window < w /\ Abandons(j)

\* The windows whose row get_monthly_performance_data returned to main.
Collected ==
    {<<calls[j].site, calls[j].window>> : j \in
        {n \in 1..Len(calls) :
            \/ script = "qpa" /\ calls[n].kind = "pages" /\ calls[n].answer # "exception"
            \/ script = "awa" /\ calls[n].kind = "totals" /\ calls[n].answer = "rows"}}

\* C5: in queries-pages-analysis.py, abandoning a site on permission denied
\* does not stop the run: the next request is the first window of the next
\* site, every later site has its windows requested when the loops end, and
\* every row collected so far stays in the dataset up to the final dataframe.
C5_PermissionErrorDoesNotStopRun ==
    script = "qpa" =>
        \A j \in 1..Len(calls) :
            Abandons(j) =>
                /\ (calls[j].site < Len(sites)) =>
                      IF j = Len(calls)
                      THEN pc = "totals" /\ site_idx = calls[j].site + 1 /\ i = 1
                      ELSE IsRequest(j + 1, calls[j].site + 1, 1, "totals")
                /\ (calls[j].site = Len(sites) /\ j = Len(calls)) => LoopsEnded
                /\ LoopsEnded =>
                      \A s \in (calls[j].site + 1)..Len(sites) : FetchedThrough(s)
                /\ \A c \in Collected : HasRow(c[1], c[2])
                /\ pc = "frame" => df = Some(all_data)

\* Site 1 was abandoned at its second window after a row of its first window;
\* site 2 was then fetched, and the final dataframe holds rows of both sites.
C5_Witness ==
    /\ script = "qpa" /\ pc = "frame"
    /\ \E j \in 1..Len(calls) : Abandons(j) /\ calls[j].site = 1 /\ calls[j].window = 2
    /\ \E k \in 1..Len(df.rows) : df.rows[k].site_url = 1
    /\ \E k \in 1..Len(df.rows) : df.rows[k].site_url = 2

\* A failure other than permission denied.
NonPermissionFailure(ans) == ans \in {"http400", "http404", "http429", "exception"}

\* C6: when the fetch of a (site, window) fails with a non-permission error,
\* an HTTP status or an exception that is not an HttpError, the run is not
\* aborted: only that row is absent and the next request of the loops is the
\* next window of the site, or the next site.
C6_FailedWindowNeverAborts ==
    Monthly =>
        \A j \in 1..Len(calls) :
            (calls[j].kind = "totals" /\ NonPermissionFailure(calls[j].answer)) =>
                /\ pc # "crashed"
                /\ ~HasRow(calls[j].site, calls[j].window)
                /\ j < Len(calls) =>
                      IF calls[j].window < NumWindows
                      THEN IsRequest(j + 1, calls[j].site, calls[j].window + 1, "totals")
                      ELSE IsRequest(j + 1, calls[j].site + 1, 1, "totals")

\* C7: every row of the dataset belongs to a (site, window) whose queries
\* returned data, and no count of a row is a zero put there because a query
\* failed or returned no rows.
C7_NoZeroFilledRows ==
    Monthly =>
        \A j \in 1..Len(calls) :
            (calls[j].answer # "rows" /\ HasRow(calls[j].site, calls[j].window)) =>
                \A k \in 1..Len(all_data) :
                    (all_data[k].site_url = calls[j].site
                        /\ all_data[k].month = WindowMonth(calls[j].window)) =>
                        /\ calls[j].kind = "queries" => all_data[k].queries # 0
                        /\ calls[j].kind = "pages" => all_data[k].pages # 0
                        /\ calls[j].kind # "totals"

(***************************************************************************)
(* Properties of get_sort_key.                                             *)
(***************************************************************************)
Text_www == <<"w", "w", "w">>

Text_blog == <<"b", "l", "o", "g">>

Text_example == <<"e", "x", "a", "m", "p", "l", "e">>

Text_example_co_uk == Text_example \o <<".", "c", "o", ".", "u", "k">>

RECURSIVE Dotted(_)
\* The labels written with dots between them.
Dotted(labels) ==
    IF Len(labels) = 1 THEN labels[1]
    ELSE labels[1] \o <<".">> \o Dotted(Tail(labels))

\* The last k labels of a host (all of them when it has fewer).
LastLabels(labels, k) ==
    SubSeq(labels, IF Len(labels) > k THEN Len(labels) - k + 1 ELSE 1, Len(labels))

\* The root domain the specification describes: the last three labels when
\* the second-to-last is a known second-level label, else the last two.
SpecRootDomain(labels) ==
    IF labels[Len(labels) - 1] \in SecondLevelLabels
    THEN Dotted(LastLabels(labels, 3))
    ELSE Dotted(LastLabels(labels, 2))

\* C9: for a site identifier of either form, get_sort_key derives as root
\* domain the last three host labels when the second-to-last label is one of
\* co, com, org, net, gov, edu, and the last two labels otherwise.
C9_RootDomain ==
    (script = "sortkey" /\ pc = "done") =>
        sort_key.root_domain = SpecRootDomain(site_in.labels)

\* C10: a domain property gets class 0 and an empty subdomain; a URL-prefix
\* property whose first host label is www gets class 1 and an empty
\* subdomain; any other URL-prefix property gets class 2 and its first host
\* label as subdomain.
C10_PrecedenceClass ==
    (script = "sortkey" /\ pc = "done") =>
        LET first == site_in.labels[1] IN
        CASE site_in.form = "domain" ->
                sort_key.order = 0 /\ sort_key.subdomain = <<>>
          [] site_in.form # "domain" /\ first = Text_www ->
                sort_key.order = 1 /\ sort_key.subdomain = <<>>
          [] OTHER ->
                sort_key.order = 2 /\ sort_key.subdomain = first

\* https://blog.example.co.uk/ has been given class 2 and subdomain blog.
C10_Witness ==
    /\ script = "sortkey" /\ pc = "done"
    /\ site_in.form = "https"
    /\ site_in.labels = <<Text_blog, Text_example, <<"c", "o">>, <<"u", "k">>>>
    /\ sort_key.order = 2
    /\ sort_key.subdomain = Text_blog

(***************************************************************************)
(* Properties of the site list of the multi-site report.                   *)
(***************************************************************************)
RootOf(site) == get_sort_key(site).root_domain

ClassOf(site) == get_sort_key(site).order

\* The key of a is not greater than the key of b, component by component.
KeyAtMost(a, b) ==
    LET ka == get_sort_key(a)
        kb == get_sort_key(b)
    IN  \/ StrLess(ka.root_domain, kb.root_domain)
        \/ /\ ka.root_domain = kb.root_domain
           /\ \/ ka.order < kb.order
              \/ ka.order = kb.order /\ ~StrLess(kb.subdomain, ka.subdomain)

SitesSorted ==
    /\ {sites[k] : k \in 1..Len(sites)} = {site_in[k] : k \in 1..Len(site_in)}
    /\ \A a, b \in 1..Len(sites) : sites[a] = sites[b] => a = b
    /\ \A a, b \in 1..Len(sites) : a < b => KeyAtMost(sites[a], sites[b])
    /\ \A a, b, c \in 1..Len(sites) :
          a < b /\ b < c /\ RootOf(sites[a]) = RootOf(sites[c])
             => RootOf(sites[b]) = RootOf(sites[a])
    /\ \A a, b \in 1..Len(sites) :
          a < b /\ RootOf(sites[a]) = RootOf(sites[b])
             => ClassOf(sites[a]) <= ClassOf(sites[b])

OneGroupPerRoot ==
    /\ \A g, h \in 1..Len(index_groups) :
          index_groups[g].root_domain = index_groups[h].root_domain => g = h
    /\ {index_groups[g].root_domain : g \in 1..Len(index_groups)}
          = {RootOf(sites[k]) : k \in 1..Len(sites)}
    /\ \A g \in 1..Len(index_groups) :
          LET entries == index_groups[g].entries IN
          /\ \A e \in 1..Len(entries) :
                RootOf(entries[e].site) = index_groups[g].root_domain
          /\ \A e, f \in 1..Len(entries) :
                e < f => ClassOf(entries[e].site) <= ClassOf(entries[f].site)

Logged(entry) == \E k \in 1..Len(auth_log) : auth_log[k] = entry

TimesLogged(op) == Cardinality({k \in 1..Len(auth_log) : auth_log[k][1] = op})

ServiceReturnedOrRunEnded == script \in Scripts /\ pc # "auth" /\ pc # "start"

RefreshFailed ==
    \E k \in 1..Len(auth_log) :
        auth_log[k][1] = "refresh" /\ auth_log[k][2] # "ok"

\* The stored token as get_gsc_service found it was valid: the file was
\* neither rewritten nor removed and holds valid credentials.
StoredTokenValid ==
    /\ ~Logged(<<"save", "token">>) /\ ~Logged(<<"remove", "token">>)
    /\ token_file.kind = "token" /\ token_file.creds.valid

\* Absent, unreadable, or invalid and not successfully refreshed.
GrantNeeded == ~StoredTokenValid /\ ~Logged(<<"refresh", "ok">>)

\* C15: after get_gsc_service, a returned service is built on valid
\* credentials and a token file it wrote holds valid credentials; when the
\* stored token was absent, unreadable, or invalid and not refreshed, a
\* service is returned only after the interactive flow ran and its token was
\* saved; and an unreadable token leads to the flow whenever the client
\* secret is there.
C15_OnlyValidCredentials ==
    ServiceReturnedOrRunEnded =>
        /\ service.built => service.creds.valid
        /\ Logged(<<"save", "token">>) =>
              token_file.kind = "token" /\ token_file.creds.valid
        /\ service.built /\ GrantNeeded =>
              Logged(<<"flow", "ok">>) /\ Logged(<<"save", "token">>)
        /\ Logged(<<"load", "unreadable">>) /\ client_secret =>
              TimesLogged("flow") = 1

\* C16: in every script, after a failed refresh the token file is gone (or
\* holds the token of the flow), the interactive flow has run exactly once
\* if the client secret is there, a failed flow leaves no service and no
\* API call, and the refresh was attempted once.
C16_RefreshFailureRecovery ==
    ServiceReturnedOrRunEnded /\ RefreshFailed =>
        /\ Logged(<<"remove", "token">>)
        /\ token_file = NoTokenFile \/ Logged(<<"save", "token">>)
        /\ client_secret => TimesLogged("flow") = 1
        /\ Logged(<<"flow", "error">>) => ~service.built /\ calls = <<>>
        /\ TimesLogged("refresh") = 1

\* C17: when client_secret.json is missing and an interactive grant is
\* needed, the run has ended without a service, without an API call, with
\* the token file unwritten and without CSV or HTML output.
C17_MissingClientSecretIsFatal ==
    ServiceReturnedOrRunEnded /\ ~client_secret /\ GrantNeeded =>
        /\ ~service.built
        /\ pc \in {"returned", "crashed"}
        /\ calls = <<>>
        /\ ~Logged(<<"save", "token">>)
        /\ csv_file = None /\ html_file = None

(***************************************************************************)
(* Properties of a whole run.                                              *)
(***************************************************************************)
Attempted(file) == \E k \in 1..Len(io_log) : io_log[k][1] = file

Wrote(file) == \E k \in 1..Len(io_log) : io_log[k] = <<file, "ok">>

FailedToWrite(file) ==
    \E k \in 1..Len(io_log) : io_log[k][1] = file /\ io_log[k][2] # "ok"

\* The run was started with --use-cache and found the CSV at its output
\* path: the file is there and this run has not tried to write it.
CacheHit ==
    script = "qpa" /\ args.use_cache /\ ~csv_file.isNone /\ ~Attempted("csv")

RunEnded == pc \in {"finished", "returned", "crashed", "no_sites", "no_data"}

\* C12: a run of queries-pages-analysis.py with --use-cache that finds the
\* CSV at the canonical output path never enters get_gsc_service, issues no
\* API call and leaves the CSV as it was, its rows being the frame of the
\* report, and only the HTML file is written; a run without the flag or
\* without the CSV enters get_gsc_service as soon as it has looked.
C12_UseCacheSkipsFetch ==
    script = "qpa" =>
        /\ CacheHit =>
              /\ auth_log = <<>> /\ ~service.built /\ token_file = ValidToken
              /\ calls = <<>>
              /\ csv_file = Some(PreviousCsv(args))
              /\ pc # "start" => df = Some(ReadCsv(csv_file.rows))
              /\ pc \in {"start", "report", "finished", "crashed"}
              /\ Wrote("html") =>
                    html_file = Some(ReportBody(script)) /\ pc = "finished"
        /\ ~CacheHit /\ pc # "start" => pc = "auth" \/ auth_log # <<>>

\* A cache run of the account-wide report has written its HTML, with the
\* index of the two sites of the CSV.
C12_Witness ==
    /\ CacheHit /\ args.site_url = 0 /\ pc = "finished" /\ Wrote("html")
    /\ Len(sites) = 2 /\ Len(index_groups) = 1
    /\ Len(html_file.rows) = 4

\* C13: a run that found no site, or whose fetches yielded no data row,
\* ends without having tried to write a CSV or an HTML file, in all three
\* scripts; the files are as they were before the run.
C13_NoOutputWithoutData ==
    (script \in Scripts /\ ~CacheHit) =>
        /\ pc = "no_sites" => all_data = <<>>
        /\ all_data = <<>> =>
              /\ io_log = <<>>
              /\ html_file = None
              /\ csv_file \in {None, Some(PreviousCsv(args))}
              /\ pc \notin {"frame", "report", "analysis", "finished"}

\* The one site of the account was asked for its totals and gave no row:
\* the run stopped at "No performance data found" with nothing written.
C13_Witness ==
    /\ script = "qpa" /\ pc = "no_data" /\ args.site_url = 0
    /\ Len(calls) = 2 /\ calls[1].answer = "sites" /\ calls[2].kind = "totals"
    /\ all_data = <<>> /\ io_log = <<>> /\ html_file = None

\* C14: in every script a failed CSV write is followed by the attempt to
\* write the HTML report, and a failed HTML write leaves the CSV of the run
\* in place.
C14_ArtifactsIndependent ==
    script \in Scripts =>
        /\ (FailedToWrite("csv") /\ RunEnded) => Attempted("html")
        /\ (FailedToWrite("html") /\ Wrote("csv")) => ~csv_file.isNone

\* The rows as fetched, cell by cell.
FetchedFrame == DataFrame(script, all_data)

\* C18: the CSV a monthly script has written has the header site_url,
\* month, clicks, impressions, ctr, position[, queries, pages] and the
\* numbers as fetched (plain integers, ctr and position as the floats they
\* are); read back it gives the rows of the in-memory frame it was written
\* from, which are the rows fetched, and writing the HTML report leaves
\* that frame as it is.
C18_CsvRoundTrip ==
    (script \in {"qpa", "awa"} /\ Wrote("csv")) =>
        /\ csv_file.rows[1] = Columns(script)
        /\ csv_file.rows = CsvLines(Columns(script), FetchedFrame)
        /\ ReadCsv(csv_file.rows) = FetchedFrame
        /\ ReadCsv(csv_file.rows) = df.rows

(***************************************************************************)
(* Properties of the narrative aggregates.                                 *)
(***************************************************************************)
\* Among the groups with the largest sum, the one whose first row comes
\* first in the row order.
FirstEncounteredTop(rows, col) ==
    LET first == CHOOSE k \in 1..Len(rows) :
                    /\ IsLargest(rows, col, KeyOf(rows[k], col))
                    /\ \A m \in 1..(k - 1) : ~IsLargest(rows, col, KeyOf(rows[m], col))
    IN  KeyOf(rows[first], col)

\* C19: the top page, the top query and the busiest month are each the
\* group with the largest sum of clicks, ties going to the group whose first
\* row is earliest in the fetched row order.
C19_TieBreakFirstEncountered ==
    (script = "wrapped" /\ pc = "report") =>
        /\ wrapped_data.top_page = FirstEncounteredTop(df.rows, "page")
        /\ wrapped_data.top_query = FirstEncounteredTop(df.rows, "query")
        /\ wrapped_data.most_clicked_month
              = FirstEncounteredTop(df.rows, "month")[2]

(***************************************************************************)
(* Properties of the accumulated dataset.                                  *)
(***************************************************************************)
\* Place of a site in the site list.
PlaceOf(s) == CHOOSE n \in 1..Len(sites) : sites[n] = s

\* Month label a is a later month than b.
LaterMonth(a, b) == a[1] > b[1] \/ (a[1] = b[1] /\ a[2] > b[2])

\* C20: at every point of the fetch loop all_data has at most one row per
\* (site, month), its rows are in the order of the site list and, within a
\* site, from the most recent month back, and a row holds the totals of its
\* own window together with the unique-query and unique-page counts of that
\* window (or 0 where the code counted none).
C20_OneRowPerSiteMonthInOrder ==
    Monthly =>
        /\ Cardinality({<<all_data[k].site_url, all_data[k].month>> :
                            k \in 1..Len(all_data)}) = Len(all_data)
        /\ \A k \in 1..(Len(all_data) - 1) :
              \/ PlaceOf(all_data[k].site_url) < PlaceOf(all_data[k + 1].site_url)
              \/ /\ all_data[k].site_url = all_data[k + 1].site_url
                 /\ LaterMonth(all_data[k].month, all_data[k + 1].month)
        /\ \A k \in 1..Len(all_data) :
              LET row == all_data[k]
                  w == WindowOfMonth(row.month)
                  totals == TotalsRow(row.site_url, w)
              IN  /\ w \in 1..NumWindows
                  /\ row.clicks = totals.clicks
                  /\ row.impressions = totals.impressions
                  /\ row.ctr = totals.ctr
                  /\ row.position = totals.position
                  /\ script = "qpa" =>
                        /\ row.queries \in {0, QueryRowCount(row.site_url, w)}
                        /\ row.pages \in {0, PageRowCount(row.site_url, w)}

\* Both sites have rows, the first site lacks its second window, and the
\* loops are over.
C20_Witness ==
    /\ script = "qpa" /\ pc = "frame" /\ Len(all_data) >= 4
    /\ HasRow(1, 1) /\ ~HasRow(1, 2) /\ HasRow(1, 3) /\ HasRow(2, 2)
    /\ \E k \in 1..Len(all_data) : all_data[k].queries = 0 /\ all_data[k].pages # 0

(***************************************************************************)
(* Properties of the requests of a run.                                    *)
(***************************************************************************)
\* What identifies a request: site, window, query kind and start offset.
\* wrapped asks for one site and one window, page by page; the monthly
\* scripts ask for every (site, window, kind) without an offset.
RequestId(c) ==
    IF script = "wrapped"
    THEN <<args.site_url, 0, "rows", c.startRow>>
    ELSE <<c.site, c.window, c.kind, 0>>

KindRank(kind) ==
    CASE kind = "sites" -> 0
      [] kind = "totals" -> 1
      [] kind = "queries" -> 2
      [] OTHER -> 3

\* The place of a request of the monthly scripts in the order of the loops.
LoopPlace(c) ==
    IF c.kind = "sites" THEN 0
    ELSE (PlaceOf(c.site) * (NumWindows + 1) + c.window) * 4 + KindRank(c.kind)

Failed(c) == c.answer # "rows" /\ c.answer # "sites"

\* C21: no retries.  In every state of a run no two requests issued so far
\* have the same (site, window, kind, start offset); requests follow the
\* order of the loops, so a request that failed or had no rows is followed
\* only by requests further on: after a totals request without rows the next
\* request is the totals request of a later window or site, after HTTP 403
\* in queries-pages-analysis.py it is for another site, and the paged fetch
\* issues nothing after a request without rows; the credentials are
\* refreshed at most once and the interactive flow runs at most once.
C21_NoRetries ==
    /\ Cardinality({RequestId(calls[k]) : k \in 1..Len(calls)}) = Len(calls)
    /\ TimesLogged("refresh") <= 1 /\ TimesLogged("flow") <= 1
    /\ script = "wrapped" =>
          \A k \in 1..(Len(calls) - 1) :
              /\ calls[k].answer = "rows"
              /\ calls[k].startRow < calls[k + 1].startRow
    /\ Monthly =>
          \A k \in 1..(Len(calls) - 1) :
              LET c == calls[k]  d == calls[k + 1] IN
              /\ LoopPlace(c) < LoopPlace(d)
              /\ c.kind = "totals" /\ Failed(c) =>
                    d.kind = "totals" /\ <<d.site, d.window>> # <<c.site, c.window>>
              /\ script = "qpa" /\ c.kind = "totals" /\ c.answer = "http403" =>
                    d.site # c.site

\* A run of queries-pages-analysis.py that re-authorized after a failed
\* refresh, had a totals request and a sub-query fail, and went on with the
\* same site to the end of its loops.
C21_Witness ==
    /\ script = "qpa" /\ Logged(<<"refresh", "RefreshError">>)
    /\ Logged(<<"flow", "ok">>)
    /\ pc = "frame"
    /\ \E k \in 1..(Len(calls) - 1) :
          /\ calls[k].kind = "totals" /\ calls[k].answer = "http429"
          /\ calls[k + 1].site = calls[k].site
    /\ \E k \in 1..(Len(calls) - 1) :
          calls[k].kind = "pages" /\ calls[k].answer = "http429"

(***************************************************************************)
(* Termination of the paged fetch.                                         *)
(***************************************************************************)
FetchReturned == pc \in {"returned", "done"}

\* The offsets asked so far are 0, P, 2P, ...; every request but the last
\* was answered with a full page; the loop is still running only if the last
\* answer was a full page; and the number of requests is bounded by the rows
\* of the source.
PagingDiscipline ==
    script = "wrapped" =>
        /\ \A k \in 1..Len(calls) : calls[k].startRow = (k - 1) * row_limit
        /\ \A k \in 1..(Len(calls) - 1) :
              calls[k].answer = "rows" /\ calls[k].n = row_limit
        /\ pc = "loop" /\ calls # <<>> =>
              /\ calls[Len(calls)].answer = "rows"
              /\ calls[Len(calls)].n = row_limit
        /\ Len(calls) <= (Len(source_rows) \div row_limit) + 1

\* C22: for every finite source and page limit get_gsc_data returns after
\* finitely many requests (at most R div P + 1); the first request has
\* start offset 0, each further one the offset of the one before plus the
\* page limit, and a further request is made only after a page of exactly
\* the page limit of rows.
C22_PaginationTerminates == []PagingDiscipline /\ <>FetchReturned

\* A source of two full pages: the third request, at twice the page limit,
\* finds no rows and ends the fetch.
C22_Witness ==
    /\ script = "wrapped" /\ FetchReturned
    /\ Len(source_rows) = 2 * row_limit
    /\ Len(calls) = 3
    /\ calls[3].startRow = 2 * row_limit /\ calls[3].answer = "norows"
    /\ raw_data = Some(source_rows)

(***************************************************************************)
(* Properties of the per-site driver.                                      *)
(***************************************************************************)
DriverOver == pc \in {"usage_error", "returned", "finished", "stopped"}

ChildFailed(c) == c.outcome \in {"nonzero", "Exception"}

InterpreterMissing(c) == c.outcome = "FileNotFoundError"

\* C23: in every state of run_for_sites.py the children invoked so far are
\* for the first sites of the list, one each and in list order, with the
\* site as the argument after the script; at most one child is running and
\* it is the latest; a child that exited non-zero or raised an unexpected
\* error is followed by the child of the next site, so the loop ends early
\* only on a missing interpreter, and when it ends otherwise every site has
\* had its child; after a missing interpreter no further child is invoked;
\* and with a missing script, a missing sites file or an empty list no child
\* is invoked at all.
C23_OneChildPerSiteInOrder ==
    script = "run_for_sites" =>
        /\ Len(children) <= Len(sites_to_process)
        /\ \A k \in 1..Len(children) :
              /\ children[k].site = sites_to_process[k]
              /\ children[k].command[3] = sites_to_process[k]
              /\ children[k].outcome = "running" => k = Len(children) /\ pc = "wait"
              /\ InterpreterMissing(children[k]) => k = Len(children) /\ pc = "stopped"
              /\ ChildFailed(children[k]) /\ k < Len(sites_to_process) =>
                    k < Len(children) \/ pc = "loop"
        /\ pc = "finished" => Len(children) = Len(sites_to_process)
        /\ pc = "stopped" => InterpreterMissing(children[Len(children)])
        /\ DriverOver /\ Len(children) < Len(sites_to_process) => pc = "stopped"
        /\ (\/ ~argv.script_exists
            \/ argv.file_given /\ ~argv.file_exists
            \/ sites_to_process = <<>>) =>
              children = <<>> /\ pc \in {"start", "usage_error", "returned"}

\* Two sites from a file with a comment line: the first child exited
\* non-zero, the second was still invoked, and the run finished.
C23_Witness ==
    /\ script = "run_for_sites" /\ pc = "finished"
    /\ argv.file_given /\ Len(argv.lines) > Len(sites_to_process)
    /\ Len(children) = 2
    /\ children[1].outcome = "nonzero"
    /\ children[2].outcome = "Exception"
    /\ children[1].site # children[2].site

====
